---- MODULE Spec2Model ----
(***************************************************************************)
(* A model of dtools.fp.err_handling (classes MayBe and Xor), and of the    *)
(* classes of grscheller.fp that came before them.                         *)
(*                                                                         *)
(* Python objects live in a heap: a sequence of objects, an object's       *)
(* identity being its index.  A value is either an atom (None, an int, a   *)
(* str, the NoValue() and Sentinel('MayBe') singletons), whose identity is *)
(* its name, or a reference to a heap object.  `x is y` is equality of     *)
(* values; `x == y` is PyEq, which dispatches to the __eq__ methods.       *)
(* Every method is an operator from a heap and its arguments to an         *)
(* outcome: the heap after the call, the value returned or the exception   *)
(* raised, and how often the caller-supplied function was invoked.  One    *)
(* action per method applies it to objects of the current heap and records *)
(* the call in `last`.                                                     *)
(***************************************************************************)
EXTENDS Integers, Sequences, FiniteSets, TLC

\* heap: the live objects; last: the call being made; instances: the
\* sentinel made for each name (the class attribute Sentinel._instance);
\* threads: where each thread is inside Sentinel.__new__.
VARIABLES heap, last, instances, threads, fold, run, lazies

vars == <<heap, last, instances, threads, fold, run, lazies>>

\* Bounds of the model: the live objects of a run over MayBe alone and of a
\* run over Xor, and the length of an iterable argument.
MaxHeap == 3
MaxXorHeap == 2
MaxSeq == 3
MaxThreads == 3
MaxItem == 2
MaxFold == 3
MaxIters == 3
MaxLen == 3
MaxLazy == 1
MaxEvals == 3

(***************************************************************************)
(* Values                                                                  *)
(***************************************************************************)
Atom(a) == [ref |-> 0, atom |-> a]
Ref(i) == [ref |-> i, atom |-> "object"]

None == Atom("None")
Zero == Atom("0")
EmptyStr == Atom("''")
FortyTwo == Atom("42")
\* The float 42.0: another object than the int 42, and 42 == 42.0.
FortyTwoF == Atom("42.0")
NoValue == Atom("NoValue()")
\* Sentinel('MayBe'): the one instance every request for it returns.
Sentinel == Atom("Sentinel('MayBe')")
\* What `last.ret` holds when the call raised instead of returning.
NoReturn == Atom("<raised>")
\* grscheller.fp.nada: the singleton nada
nada == Atom("nada")

\* The values a caller stores: everything but the library's private sentinel.
UserAtoms == {None, Zero, EmptyStr, FortyTwo, FortyTwoF, NoValue}
\* int and float compare by numeric value, whatever the object.
IsNumber(v) == v \in {Zero, FortyTwo, FortyTwoF}
NumEq(a, b) == a = b \/ {a, b} = {FortyTwo, FortyTwoF}

IsRef(v) == v.ref > 0

\* LEFT = Left() and RIGHT = Right(): _Bool instances, the ints 1 and 0.
LEFT == 1
RIGHT == 0
\* The side field of an object that has no _side slot.
NoSide == -1

MayBeObj(v) == [cls |-> "MayBe", value |-> v, side |-> NoSide, items |-> <<>>]
XorObj(v, s) == [cls |-> "Xor", value |-> v, side |-> s, items |-> <<>>]
\* iter(list): a list_iterator over the items collected by sequence.
IterObj(vs) == [cls |-> "list_iterator", value |-> None, side |-> NoSide, items |-> vs]

ClsOf(h, v) == IF IsRef(v) THEN h[v.ref].cls ELSE "atom"
IsMayBe(h, v) == ClsOf(h, v) = "MayBe"
IsXor(h, v) == ClsOf(h, v) = "Xor"

Refs(h) == {Ref(i) : i \in 1..Len(h)}
MayBes(h) == {r \in Refs(h) : IsMayBe(h, r)}
Xors(h) == {r \in Refs(h) : IsXor(h, r)}
UserVals(h) == UserAtoms \cup Refs(h)

(***************************************************************************)
(* Outcome of a call                                                       *)
(***************************************************************************)
\* heap: the heap after the call; ret: the value returned; exc: the exception
\* raised ("" when none); calls: invocations of the caller-supplied function;
\* taken: elements requested from the caller-supplied iterable.
Return(h, v, n) == [heap |-> h, ret |-> v, exc |-> "", calls |-> n, taken |-> 0]
Raise(h, e, n) == [heap |-> h, ret |-> NoReturn, exc |-> e, calls |-> n, taken |-> 0]
\* The classes (IndexError with its base LookupError) that the except clauses
\* of map_except, bind_except and call name.
Caught == {"LookupError", "IndexError", "ValueError", "TypeError", "BufferError",
           "ArithmeticError", "RecursionError", "ReferenceError", "RuntimeError"}
\* The classes the except clause of Xor.idx names.
IdxCaught == {"IndexError", "TypeError", "ArithmeticError", "RuntimeError"}
\* The exception instance bound by `except ... as exc`.
ExcObj(e) == Atom(e)

(***************************************************************************)
(* Equality: Python's == with its reflected fallback                       *)
(***************************************************************************)
RECURSIVE PyEq(_, _, _)
RECURSIVE DunderEq(_, _, _)
RECURSIVE MayBe_eq(_, _, _)
RECURSIVE Xor_eq(_, _, _)

\* NoValue.__eq__: never equal, not even to itself.
NoValue_eq(self, other) == FALSE

\* A mutant of Sentinel.__eq__: every sentinel equals every other.
Sentinel_eq_any(self, other) == IsRef(self) /\ IsRef(other)

\* Sentinel.__eq__: equal to itself alone.
Sentinel_eq(self, other) == self = other

\* Nada.__eq__ as its class documents it: nada == nada is false, and a
\* comparison is true only between two values that are not missing.
Nada_eq(self, other) == FALSE

\* A mutant of MayBe.__bool__: the truth value of the content, not its presence.
MayBe_bool_truthy(h, self) ==
  h[self.ref].value \notin {Sentinel, None, Zero, EmptyStr}

\* MayBe.__bool__
MayBe_bool(h, self) == h[self.ref].value # Sentinel

\* MayBe.__len__
MayBe_len(h, self) == IF MayBe_bool(h, self) THEN 1 ELSE 0

\* Xor.__bool__
Xor_bool(h, self) == h[self.ref].side = LEFT

\* A mutant of MayBe.__eq__: the identity test `is` dropped.
MayBe_eq_no_is(h, self, other) ==
  /\ IsMayBe(h, other)
  /\ PyEq(h, h[self.ref].value, h[other.ref].value)

\* MayBe.__eq__
MayBe_eq(h, self, other) ==
  IF ~IsMayBe(h, other) THEN FALSE
  ELSE IF h[self.ref].value = h[other.ref].value THEN TRUE
  ELSE IF PyEq(h, h[self.ref].value, h[other.ref].value) THEN TRUE
  ELSE FALSE

\* A mutant of Xor.__eq__: the sides are not compared.
Xor_eq_no_side(h, self, other) ==
  /\ IsXor(h, other)
  /\ \/ h[self.ref].value = h[other.ref].value
     \/ PyEq(h, h[self.ref].value, h[other.ref].value)

\* Xor.__eq__
Xor_eq(h, self, other) ==
  IF ~IsXor(h, other) THEN FALSE
  ELSE IF /\ Xor_bool(h, self) /\ Xor_bool(h, other)
          /\ \/ h[self.ref].value = h[other.ref].value
             \/ PyEq(h, h[self.ref].value, h[other.ref].value)
       THEN TRUE
  ELSE IF /\ ~Xor_bool(h, self) /\ ~Xor_bool(h, other)
          /\ \/ h[self.ref].value = h[other.ref].value
             \/ PyEq(h, h[self.ref].value, h[other.ref].value)
       THEN TRUE
  ELSE FALSE

\* type(a).__eq__(a, b): "True", "False" or "NotImplemented".
DunderEq(h, a, b) ==
  LET B(x) == IF x THEN "True" ELSE "False" IN
  IF a = NoValue THEN B(NoValue_eq(a, b))
  ELSE IF a = Sentinel THEN B(Sentinel_eq(a, b))
  ELSE IF a = nada THEN B(Nada_eq(a, b))
  ELSE IF IsMayBe(h, a) THEN B(MayBe_eq(h, a, b))
  ELSE IF IsXor(h, a) THEN B(Xor_eq(h, a, b))
  ELSE IF ClsOf(h, a) = "Sentinel" THEN B(Sentinel_eq(a, b))
  ELSE IF IsRef(a) THEN (IF a = b THEN "True" ELSE "NotImplemented")
  \* int and float: numeric equality with another number
  ELSE IF IsNumber(a) /\ IsNumber(b) THEN B(NumEq(a, b))
  \* None and str: equal to an equal value of the same type
  ELSE IF a = b THEN "True" ELSE "NotImplemented"

\* a == b: a's __eq__, then b's reflected __eq__, then identity.
PyEq(h, a, b) ==
  LET r == DunderEq(h, a, b) IN
  IF r # "NotImplemented" THEN r = "True"
  ELSE LET rr == DunderEq(h, b, a) IN
       IF rr # "NotImplemented" THEN rr = "True" ELSE a = b

(***************************************************************************)
(* The functions callers pass to map and bind                              *)
(***************************************************************************)
\* A mutant of MayBe.__init__: a MayBe argument is unwrapped, not stored.
MayBe_init_flatten(h, value) ==
  Return(Append(h, MayBeObj(IF IsMayBe(h, value) THEN h[value.ref].value ELSE value)),
         Ref(Len(h) + 1), 0)

\* MayBe.__init__: MayBe() is MayBe(Sentinel('MayBe')).
MayBe_init(h, value) == Return(Append(h, MayBeObj(value)), Ref(Len(h) + 1), 0)

\* Xor.__init__
Xor_init(h, value, side) == Return(Append(h, XorObj(value, side)), Ref(Len(h) + 1), 0)

\* A mutant of Xor(value): the default side of __new__, which __init__ ignores.
Xor_init_default_new(h, value) == Xor_init(h, value, RIGHT)

\* Xor(value): the side is the default of __init__.
Xor_init_default(h, value) == Xor_init(h, value, LEFT)

MapFuncs == {"identity", "const_none", "only42", "os_error"}
BindFuncs == {"identity", "MayBe", "empty", "MayBe_if_42", "only42"}
XorBindFuncs == {"Xor_left", "Xor_right", "not42", "os_error"}

\* f(x) for the function named f; every use counts one invocation.
Call(h, f, x) ==
  CASE f = "identity" -> Return(h, x, 1)
    [] f = "const_none" -> Return(h, None, 1)
    [] f = "only42" ->
         IF PyEq(h, x, FortyTwo) THEN Return(h, x, 1) ELSE Raise(h, "ValueError", 1)
    [] f = "os_error" -> Raise(h, "OSError", 1)
    [] f = "MayBe" -> [MayBe_init(h, x) EXCEPT !.calls = 1]
    [] f = "empty" -> [MayBe_init(h, Sentinel) EXCEPT !.calls = 1]
    [] f = "MayBe_if_42" ->
         IF PyEq(h, x, FortyTwo) THEN [MayBe_init(h, x) EXCEPT !.calls = 1]
         ELSE [MayBe_init(h, Sentinel) EXCEPT !.calls = 1]
    [] f = "Xor_left" -> [Xor_init(h, x, LEFT) EXCEPT !.calls = 1]
    [] f = "Xor_right" -> [Xor_init(h, x, RIGHT) EXCEPT !.calls = 1]
    [] f = "not42" ->
         IF PyEq(h, x, FortyTwo) THEN Raise(h, "ValueError", 1)
         ELSE [Xor_init(h, x, LEFT) EXCEPT !.calls = 1]

(***************************************************************************)
(* class MayBe                                                             *)
(***************************************************************************)
\* MayBe.get; get() is get(Sentinel('MayBe')).
MayBe_get(h, self, alt) ==
  IF h[self.ref].value # Sentinel THEN Return(h, h[self.ref].value, 0)
  ELSE IF alt = Sentinel THEN Raise(h, "ValueError", 0)
  ELSE Return(h, alt, 0)

\* A mutant of MayBe.map: an exception of f becomes the empty MayBe.
MayBe_map_swallow(h, self, f) ==
  IF MayBe_bool(h, self)
  THEN LET r == Call(h, f, h[self.ref].value) IN
       IF r.exc # "" THEN [MayBe_init(r.heap, Sentinel) EXCEPT !.calls = r.calls]
       ELSE [MayBe_init(r.heap, r.ret) EXCEPT !.calls = r.calls]
  ELSE Return(h, self, 0)

\* MayBe.map
MayBe_map(h, self, f) ==
  IF MayBe_bool(h, self)
  THEN LET r == Call(h, f, h[self.ref].value) IN
       IF r.exc # "" THEN r
       ELSE [MayBe_init(r.heap, r.ret) EXCEPT !.calls = r.calls]
  ELSE Return(h, self, 0)

\* A mutant of MayBe.bind: the result of f is wrapped again, as map does.
MayBe_bind_wrap(h, self, f) ==
  IF MayBe_bool(h, self)
  THEN LET r == Call(h, f, h[self.ref].value) IN
       IF r.exc # "" THEN r
       ELSE [MayBe_init(r.heap, r.ret) EXCEPT !.calls = r.calls]
  ELSE Return(h, self, 0)

\* MayBe.bind
MayBe_bind(h, self, f) ==
  IF MayBe_bool(h, self) THEN Call(h, f, h[self.ref].value) ELSE Return(h, self, 0)

\* A mutant of MayBe.map_except: no exception of f is caught.
MayBe_map_except_uncaught(h, self, f) ==
  IF ~MayBe_bool(h, self) THEN Return(h, self, 0)
  ELSE LET r == Call(h, f, h[self.ref].value) IN
       IF r.exc = "" THEN [MayBe_init(r.heap, r.ret) EXCEPT !.calls = r.calls]
       ELSE r

\* MayBe.map_except
MayBe_map_except(h, self, f) ==
  IF ~MayBe_bool(h, self) THEN Return(h, self, 0)
  ELSE LET r == Call(h, f, h[self.ref].value) IN
       IF r.exc = "" THEN [MayBe_init(r.heap, r.ret) EXCEPT !.calls = r.calls]
       ELSE IF r.exc \in Caught
            THEN [MayBe_init(r.heap, Sentinel) EXCEPT !.calls = r.calls]
       ELSE r

\* MayBe.bind_except
MayBe_bind_except(h, self, f) ==
  LET r == IF MayBe_bool(h, self) THEN Call(h, f, h[self.ref].value)
           ELSE Return(h, self, 0)
  IN  IF r.exc \in Caught THEN [MayBe_init(r.heap, Sentinel) EXCEPT !.calls = r.calls]
      ELSE r

\* MayBe.__iter__: the values the iteration yields.
MayBe_iter(h, self) == IF MayBe_bool(h, self) THEN <<h[self.ref].value>> ELSE <<>>

\* MayBe.__hash__: the tuple that is hashed.
MayBe_hash(h, self) == <<Sentinel, h[self.ref].value>>

\* A mutant of the loop of MayBe.sequence: an empty element is skipped.
RECURSIVE MayBe_sequence_skip(_, _, _, _)
MayBe_sequence_skip(h, itab_mb_d, i, item) ==
  IF i > Len(itab_mb_d)
  THEN LET it == Append(h, IterObj(item)) IN
       [MayBe_init(it, Ref(Len(it))) EXCEPT !.taken = Len(itab_mb_d)]
  ELSE IF MayBe_bool(h, itab_mb_d[i])
       THEN MayBe_sequence_skip(h, itab_mb_d, i + 1,
                                Append(item, h[itab_mb_d[i].ref].value))
       ELSE MayBe_sequence_skip(h, itab_mb_d, i + 1, item)

\* The body of MayBe.sequence's for loop from element i on; item is the list
\* built so far, and every element looked at was requested from the iterable.
RECURSIVE MayBe_sequence_loop(_, _, _, _)
MayBe_sequence_loop(h, itab_mb_d, i, item) ==
  IF i > Len(itab_mb_d)
  THEN LET it == Append(h, IterObj(item)) IN
       [MayBe_init(it, Ref(Len(it))) EXCEPT !.taken = Len(itab_mb_d)]
  ELSE IF MayBe_bool(h, itab_mb_d[i])
       THEN MayBe_sequence_loop(h, itab_mb_d, i + 1,
                                Append(item, MayBe_get(h, itab_mb_d[i], Sentinel).ret))
       ELSE [MayBe_init(h, Sentinel) EXCEPT !.taken = i]

\* MayBe.sequence
MayBe_sequence(h, itab_mb_d) == MayBe_sequence_loop(h, itab_mb_d, 1, <<>>)

(***************************************************************************)
(* class Xor                                                               *)
(***************************************************************************)
\* A mutant of Xor.get: the value is returned whatever the side.
Xor_get_any(h, self) == Return(h, h[self.ref].value, 0)

\* Xor.get
Xor_get(h, self) ==
  IF h[self.ref].side = RIGHT THEN Raise(h, "ValueError", 0)
  ELSE Return(h, h[self.ref].value, 0)

\* Xor.get_left
Xor_get_left(h, self) ==
  IF h[self.ref].side = LEFT THEN MayBe_init(h, h[self.ref].value)
  ELSE MayBe_init(h, Sentinel)

\* Xor.get_right
Xor_get_right(h, self) ==
  IF h[self.ref].side = RIGHT THEN MayBe_init(h, h[self.ref].value)
  ELSE MayBe_init(h, Sentinel)

\* Xor.map_right
Xor_map_right(h, self, f) ==
  IF h[self.ref].side = LEFT THEN Return(h, self, 0)
  ELSE LET r == Call(h, f, h[self.ref].value) IN
       IF r.exc # "" THEN r
       ELSE [Xor_init(r.heap, r.ret, RIGHT) EXCEPT !.calls = r.calls]

\* Xor.map_right called as map_right(f, alt_right): the signature (self, f)
\* takes no second argument, so the call raises TypeError before the body runs.
Xor_map_right_alt(h, self, f, alt_right) == Raise(h, "TypeError", 0)

\* Xor.__iter__: the values the iteration yields.
Xor_iter(h, self) == IF Xor_bool(h, self) THEN <<h[self.ref].value>> ELSE <<>>

\* Xor.__hash__: the tuple that is hashed.
Xor_hash(h, self) ==
  <<Atom("Sentinel('XOR')"), h[self.ref].value,
    IF h[self.ref].side = LEFT THEN Atom("LEFT") ELSE Atom("RIGHT")>>

\* Xor.__len__
Xor_len(h, self) == 1

\* A mutant of Xor.map: the receiver is changed in place and returned.
Xor_map_in_place(h, self, f) ==
  IF h[self.ref].side = RIGHT THEN Return(h, self, 0)
  ELSE LET r == Call(h, f, h[self.ref].value) IN
       IF r.exc # "" THEN r
       ELSE Return([r.heap EXCEPT ![self.ref].value = r.ret], self, r.calls)

\* Xor.map
Xor_map(h, self, f) ==
  IF h[self.ref].side = RIGHT THEN Return(h, self, 0)
  ELSE LET r == Call(h, f, h[self.ref].value) IN
       IF r.exc # "" THEN r
       ELSE [Xor_init(r.heap, r.ret, LEFT) EXCEPT !.calls = r.calls]

\* Xor.bind
Xor_bind(h, self, f) ==
  IF Xor_bool(h, self) THEN Call(h, f, h[self.ref].value) ELSE Return(h, self, 0)

\* A mutant of Xor.map_except: no except clause, as in Xor.map.
Xor_map_except_uncaught(h, self, f, fallback_right) ==
  IF h[self.ref].side = RIGHT THEN Return(h, self, 0)
  ELSE LET r == Call(h, f, h[self.ref].value) IN
       IF r.exc # "" THEN r
       ELSE [Xor_init(r.heap, r.ret, LEFT) EXCEPT !.calls = r.calls]

\* A mutant of Xor.map_except: a right is rebuilt from the fallback.
Xor_map_except_fallback(h, self, f, fallback_right) ==
  IF h[self.ref].side = RIGHT THEN Xor_init(h, fallback_right, RIGHT)
  ELSE LET r == Call(h, f, h[self.ref].value) IN
       IF r.exc = "" THEN [Xor_init(r.heap, r.ret, LEFT) EXCEPT !.calls = r.calls]
       ELSE IF r.exc \in Caught
            THEN [Xor_init(r.heap, fallback_right, RIGHT) EXCEPT !.calls = r.calls]
       ELSE r

\* Xor.map_except.  `applied` and `fall_back` are MayBe objects that never
\* leave the method: the one that is set is unwrapped by get() on return.
Xor_map_except(h, self, f, fallback_right) ==
  IF h[self.ref].side = RIGHT THEN Return(h, self, 0)
  ELSE LET r == Call(h, f, h[self.ref].value) IN
       IF r.exc = "" THEN [Xor_init(r.heap, r.ret, LEFT) EXCEPT !.calls = r.calls]
       ELSE IF r.exc \in Caught
            THEN [Xor_init(r.heap, fallback_right, RIGHT) EXCEPT !.calls = r.calls]
       ELSE r

\* A mutant of Xor.bind_except: a right that f returns counts as a failure
\* of f and is replaced by a right holding the fallback.
Xor_bind_except_right_fails(h, self, f, fallback_right) ==
  IF h[self.ref].side = RIGHT THEN Return(h, self, 0)
  ELSE LET r == Call(h, f, h[self.ref].value) IN
       IF r.exc = "" /\ IsXor(r.heap, r.ret) /\ Xor_bool(r.heap, r.ret) THEN r
       ELSE IF r.exc = "" \/ r.exc \in Caught
            THEN [Xor_init(h, fallback_right, RIGHT) EXCEPT !.calls = r.calls]
       ELSE r

\* Xor.bind_except, with `applied` and `fall_back` as in map_except.
Xor_bind_except(h, self, f, fallback_right) ==
  IF h[self.ref].side = RIGHT THEN Return(h, self, 0)
  ELSE LET r == IF Xor_bool(h, self) THEN Call(h, f, h[self.ref].value)
                ELSE Raise(h, "ValueError", 0)
       IN  IF r.exc = "" THEN
             \* applied = MayBe(f(...)); applied.get() raises if f gave the sentinel
             IF r.ret = Sentinel THEN Raise(r.heap, "ValueError", r.calls) ELSE r
           ELSE IF r.exc \in Caught
                THEN [Xor_init(r.heap, fallback_right, RIGHT) EXCEPT !.calls = r.calls]
           ELSE r

\* Xor.call
Xor_call(h, f, left) ==
  LET r == Call(h, f, left) IN
  IF r.exc = "" THEN [Xor_init(r.heap, r.ret, LEFT) EXCEPT !.calls = r.calls]
  ELSE IF r.exc \in Caught
       THEN [Xor_init(r.heap, ExcObj(r.exc), RIGHT) EXCEPT !.calls = r.calls]
  ELSE r

\* v[ii] for a tuple or list v: indices from 0, negative ones from the end.
GetItem(h, v, ii) ==
  IF 0 <= ii /\ ii < Len(v) THEN Return(h, v[ii + 1], 0)
  ELSE IF ii < 0 /\ -Len(v) <= ii THEN Return(h, v[Len(v) + ii + 1], 0)
  ELSE Raise(h, "IndexError", 0)

\* Xor.idx
Xor_idx(h, v, ii) ==
  LET r == GetItem(h, v, ii) IN
  IF r.exc = "" THEN Xor_init(r.heap, r.ret, LEFT)
  ELSE IF r.exc \in IdxCaught THEN Xor_init(r.heap, ExcObj(r.exc), RIGHT)
  ELSE r

\* A mutant of the loop of Xor.sequence: a later right replaces an earlier one.
RECURSIVE Xor_sequence_last(_, _, _, _)
Xor_sequence_last(h, itab_xor_lr, i, ts) ==
  LET R == {j \in i..Len(itab_xor_lr) : ~Xor_bool(h, itab_xor_lr[j])} IN
  IF R = {}
  THEN LET it == Append(h, IterObj(ts \o [j \in 1..(Len(itab_xor_lr) - i + 1) |->
                                            h[itab_xor_lr[i + j - 1].ref].value])) IN
       [Xor_init(it, Ref(Len(it)), LEFT) EXCEPT !.taken = Len(itab_xor_lr)]
  ELSE LET k == CHOOSE j \in R : \A l \in R : l <= j
           v == h[itab_xor_lr[k].ref].value
       IN  IF v = Sentinel THEN [Raise(h, "ValueError", 0) EXCEPT !.taken = k]
           ELSE [Xor_init(h, v, RIGHT) EXCEPT !.taken = k]

\* The body of Xor.sequence's for loop from element i on; ts is the list
\* built so far.  The MayBe that get_right() makes is dropped after its get().
RECURSIVE Xor_sequence_loop(_, _, _, _)
Xor_sequence_loop(h, itab_xor_lr, i, ts) ==
  IF i > Len(itab_xor_lr)
  THEN LET it == Append(h, IterObj(ts)) IN
       [Xor_init(it, Ref(Len(it)), LEFT) EXCEPT !.taken = Len(itab_xor_lr)]
  ELSE IF Xor_bool(h, itab_xor_lr[i])
       THEN LET g == Xor_get(h, itab_xor_lr[i]) IN
            IF g.exc # "" THEN [g EXCEPT !.taken = i]
            ELSE Xor_sequence_loop(h, itab_xor_lr, i + 1, Append(ts, g.ret))
       ELSE LET gr == Xor_get_right(h, itab_xor_lr[i])
                g == MayBe_get(gr.heap, gr.ret, Sentinel)
            IN  IF g.exc # "" THEN [Raise(h, g.exc, 0) EXCEPT !.taken = i]
                ELSE [Xor_init(h, g.ret, RIGHT) EXCEPT !.taken = i]

\* Xor.sequence
Xor_sequence(h, itab_xor_lr) == Xor_sequence_loop(h, itab_xor_lr, 1, <<>>)

(***************************************************************************)
(* Actions: the caller makes one call at a time and then resumes.          *)
(***************************************************************************)
NoCall == [op |-> "", self |-> None, arg |-> None, f |-> "", xs |-> <<>>, ii |-> 0,
           ret |-> None, exc |-> "", calls |-> 0, taken |-> 0]

Bool(b) == IF b THEN Atom("True") ELSE Atom("False")

\* Sequences of at most MaxSeq elements of S.
SeqsOf(S) == UNION {[1..n -> S] : n \in 0..MaxSeq}

\* Record a call and adopt the heap it leaves, if its objects fit the bound.
\* op: the method; self, arg, f, xs, ii: its receiver and arguments.
Record(op, self, arg, f, xs, ii, r) ==
  /\ heap' = r.heap
  /\ last' = [op |-> op, self |-> self, arg |-> arg, f |-> f, xs |-> xs, ii |-> ii,
              ret |-> r.ret, exc |-> r.exc, calls |-> r.calls, taken |-> r.taken]
  /\ UNCHANGED <<instances, threads, fold, run, lazies>>

Do(op, self, arg, f, xs, r) ==
  /\ Len(r.heap) <= MaxHeap
  /\ Record(op, self, arg, f, xs, 0, r)

DoX(op, self, arg, f, xs, ii, r) ==
  /\ Len(r.heap) <= MaxXorHeap
  /\ Record(op, self, arg, f, xs, ii, r)

\* The names sentinels are requested by: Sentinel() of grscheller.fp has
\* none, dtools.fp asks for Sentinel('MayBe') and Sentinel('XOR').
SentinelNames == {"", "MayBe", "XOR"}

Threads == 1..MaxThreads

\* A thread that is not inside Sentinel.__new__.
NoThread == [pc |-> "out", obj |-> None, ret |-> None]

\* No function over iterables is running.
NoRun == [op |-> ""]

\* No fold was called yet.
NoFold ==
  [op |-> "", xs |-> <<>>, f |-> "", initial |-> 0, ret |-> 0, exc |-> "",
   calls |-> 0]

Init ==
  /\ heap = <<>>
  /\ last = NoCall
  /\ instances = [n \in SentinelNames |-> None]
  /\ threads = [t \in Threads |-> NoThread]
  /\ fold = NoFold
  /\ run = NoRun
  /\ lazies = <<>>

\* No call is pending: the caller may make the next one.
Idle == last.op = ""

\* The caller carries on after the call: nothing of it is pending.
Resume ==
  /\ last.op # ""
  /\ last' = NoCall
  /\ UNCHANGED <<heap, instances, threads, fold, run, lazies>>

\* m = MayBe(v), and m = MayBe() when v is the default
NewMayBe ==
  /\ Idle
  /\ \E v \in UserVals(heap) \cup {Sentinel} :
      Do("MayBe", None, v, "", <<>>, MayBe_init(heap, v))

GetMayBe ==
  /\ Idle
  /\ \E m \in MayBes(heap), alt \in UserVals(heap) \cup {Sentinel} :
      Do("get", m, alt, "", <<>>, MayBe_get(heap, m, alt))

BoolMayBe ==
  /\ Idle
  /\ \E m \in MayBes(heap) :
      Do("bool", m, None, "", <<>>, Return(heap, Bool(MayBe_bool(heap, m)), 0))

LenMayBe ==
  /\ Idle
  /\ \E m \in MayBes(heap) :
      Do("len", m, None, "", <<>>,
         Return(heap, IF MayBe_len(heap, m) = 1 THEN Atom("1") ELSE Zero, 0))

EqMayBe ==
  /\ Idle
  /\ \E a \in MayBes(heap), b \in MayBes(heap) :
      Do("eq", a, b, "", <<>>, Return(heap, Bool(MayBe_eq(heap, a, b)), 0))

MapMayBe ==
  /\ Idle
  /\ \E m \in MayBes(heap), f \in MapFuncs :
      Do("map", m, None, f, <<>>, MayBe_map(heap, m, f))

BindMayBe ==
  /\ Idle
  /\ \E m \in MayBes(heap), f \in BindFuncs :
      Do("bind", m, None, f, <<>>, MayBe_bind(heap, m, f))

SequenceMayBe ==
  /\ Idle
  /\ \E xs \in SeqsOf(MayBes(heap)) :
      Do("sequence", None, None, "", xs, MayBe_sequence(heap, xs))

NextMB ==
  \/ Resume
  \/ NewMayBe
  \/ GetMayBe
  \/ BoolMayBe
  \/ LenMayBe
  \/ EqMayBe
  \/ MapMayBe
  \/ BindMayBe
  \/ SequenceMayBe

Spec == Init /\ [][NextMB]_vars

\* The values stored in an Xor, and the fallbacks handed to the *_except methods.
XorAtoms == {None, FortyTwo, FortyTwoF, NoValue, Sentinel}
XorVals(h) == XorAtoms \cup Refs(h)
Fallbacks == {None, FortyTwo}
\* The tuples handed to idx: (), (None,), (None, 42), (None, 42, None), ...
IdxSeqs == {[i \in 1..n |-> IF i % 2 = 1 THEN None ELSE FortyTwo] : n \in 0..MaxSeq}

\* m = MayBe(v) for the values an Xor holds, and m = MayBe()
NewMayBeX ==
  /\ Idle
  /\ \E v \in XorVals(heap) :
      DoX("MayBe", None, v, "", <<>>, 0, MayBe_init(heap, v))

GetMayBeX ==
  /\ Idle
  /\ \E m \in MayBes(heap), alt \in XorAtoms :
      DoX("get", m, alt, "", <<>>, 0, MayBe_get(heap, m, alt))

\* x = Xor(v, side)
NewXor ==
  /\ Idle
  /\ \E v \in XorVals(heap), side \in {LEFT, RIGHT} :
      DoX("Xor", None, v, "", <<>>, side, Xor_init(heap, v, side))

\* x = Xor(v): __init__ takes its default side, LEFT
NewXorDefault ==
  /\ Idle
  /\ \E v \in XorVals(heap) :
      DoX("Xor(v)", None, v, "", <<>>, 0, Xor_init_default(heap, v))

GetXor ==
  /\ Idle
  /\ \E x \in Xors(heap) :
      DoX("Xor.get", x, None, "", <<>>, 0, Xor_get(heap, x))

GetLeftXor ==
  /\ Idle
  /\ \E x \in Xors(heap) :
      DoX("get_left", x, None, "", <<>>, 0, Xor_get_left(heap, x))

GetRightXor ==
  /\ Idle
  /\ \E x \in Xors(heap) :
      DoX("get_right", x, None, "", <<>>, 0, Xor_get_right(heap, x))

BoolXor ==
  /\ Idle
  /\ \E x \in Xors(heap) :
      DoX("Xor.bool", x, None, "", <<>>, 0, Return(heap, Bool(Xor_bool(heap, x)), 0))

EqXor ==
  /\ Idle
  /\ \E a \in Xors(heap), b \in Xors(heap) :
      DoX("Xor.eq", a, b, "", <<>>, 0, Return(heap, Bool(Xor_eq(heap, a, b)), 0))

MapXor ==
  /\ Idle
  /\ \E x \in Xors(heap), f \in MapFuncs :
      DoX("Xor.map", x, None, f, <<>>, 0, Xor_map(heap, x, f))

MapRightXor ==
  /\ Idle
  /\ \E x \in Xors(heap), f \in MapFuncs :
      DoX("map_right", x, None, f, <<>>, 0, Xor_map_right(heap, x, f))

MapRightAltXor ==
  /\ Idle
  /\ \E x \in Xors(heap), f \in {"identity", "only42"}, alt \in {FortyTwo} :
      DoX("map_right(g, alt)", x, alt, f, <<>>, 0, Xor_map_right_alt(heap, x, f, alt))

BindXor ==
  /\ Idle
  /\ \E x \in Xors(heap), f \in XorBindFuncs :
      DoX("Xor.bind", x, None, f, <<>>, 0, Xor_bind(heap, x, f))

MapExceptXor ==
  /\ Idle
  /\ \E x \in Xors(heap), f \in MapFuncs, fb \in Fallbacks :
      DoX("Xor.map_except", x, fb, f, <<>>, 0, Xor_map_except(heap, x, f, fb))

BindExceptXor ==
  /\ Idle
  /\ \E x \in Xors(heap), f \in XorBindFuncs, fb \in Fallbacks :
      DoX("Xor.bind_except", x, fb, f, <<>>, 0, Xor_bind_except(heap, x, f, fb))

CallXor ==
  /\ Idle
  /\ \E f \in MapFuncs, v \in XorVals(heap) :
      DoX("Xor.call", None, v, f, <<>>, 0, Xor_call(heap, f, v))

IdxXor ==
  /\ Idle
  /\ \E v \in IdxSeqs, ii \in (0 - MaxSeq - 1)..MaxSeq :
      DoX("Xor.idx", None, None, "", v, ii, Xor_idx(heap, v, ii))

SequenceXor ==
  /\ Idle
  /\ \E xs \in SeqsOf(Xors(heap)) :
      DoX("Xor.sequence", None, None, "", xs, 0, Xor_sequence(heap, xs))

NextXor ==
  \/ Resume
  \/ NewMayBeX
  \/ GetMayBeX
  \/ NewXor
  \/ NewXorDefault
  \/ GetXor
  \/ GetLeftXor
  \/ GetRightXor
  \/ BoolXor
  \/ EqXor
  \/ MapXor
  \/ MapRightXor
  \/ MapRightAltXor
  \/ BindXor
  \/ MapExceptXor
  \/ BindExceptXor
  \/ CallXor
  \/ IdxXor
  \/ SequenceXor

SpecXor == Init /\ [][NextXor]_vars

\* Every method of MayBe and Xor, on the objects of a run over Xor.
MapMayBeX ==
  /\ Idle
  /\ \E m \in MayBes(heap), f \in MapFuncs :
      DoX("map", m, None, f, <<>>, 0, MayBe_map(heap, m, f))

BindMayBeX ==
  /\ Idle
  /\ \E m \in MayBes(heap), f \in BindFuncs :
      DoX("bind", m, None, f, <<>>, 0, MayBe_bind(heap, m, f))

MapExceptMayBeX ==
  /\ Idle
  /\ \E m \in MayBes(heap), f \in MapFuncs :
      DoX("map_except", m, None, f, <<>>, 0, MayBe_map_except(heap, m, f))

BindExceptMayBeX ==
  /\ Idle
  /\ \E m \in MayBes(heap), f \in BindFuncs \cup {"os_error"} :
      DoX("bind_except", m, None, f, <<>>, 0, MayBe_bind_except(heap, m, f))

\* MayBe.sequence of (), (a,) and (a, b)
SequenceMayBeX ==
  /\ Idle
  /\ \E xs \in {<<>>} \cup {<<a>> : a \in MayBes(heap)}
                \cup {<<a, b>> : a \in MayBes(heap), b \in MayBes(heap)} :
      DoX("sequence", None, None, "", xs, 0, MayBe_sequence(heap, xs))

EqMayBeX ==
  /\ Idle
  /\ \E a \in MayBes(heap), b \in Refs(heap) :
      DoX("eq", a, b, "", <<>>, 0, Return(heap, Bool(MayBe_eq(heap, a, b)), 0))

BoolMayBeX ==
  /\ Idle
  /\ \E m \in MayBes(heap) :
      DoX("bool", m, None, "", <<>>, 0, Return(heap, Bool(MayBe_bool(heap, m)), 0))

LenMayBeX ==
  /\ Idle
  /\ \E m \in MayBes(heap) :
      DoX("len", m, None, "", <<>>, MayBe_len(heap, m), Return(heap, None, 0))

\* for v in m
IterMayBeX ==
  /\ Idle
  /\ \E m \in MayBes(heap) :
      DoX("iter", m, None, "", MayBe_iter(heap, m), 0, Return(heap, None, 0))

HashMayBeX ==
  /\ Idle
  /\ \E m \in MayBes(heap) :
      DoX("hash", m, None, "", MayBe_hash(heap, m), 0, Return(heap, None, 0))

LenXor ==
  /\ Idle
  /\ \E x \in Xors(heap) :
      DoX("Xor.len", x, None, "", <<>>, Xor_len(heap, x), Return(heap, None, 0))

\* for v in x
IterXor ==
  /\ Idle
  /\ \E x \in Xors(heap) :
      DoX("Xor.iter", x, None, "", Xor_iter(heap, x), 0, Return(heap, None, 0))

HashXor ==
  /\ Idle
  /\ \E x \in Xors(heap) :
      DoX("Xor.hash", x, None, "", Xor_hash(heap, x), 0, Return(heap, None, 0))

NextFrame ==
  \/ NextXor
  \/ MapMayBeX
  \/ BindMayBeX
  \/ MapExceptMayBeX
  \/ BindExceptMayBeX
  \/ SequenceMayBeX
  \/ EqMayBeX
  \/ BoolMayBeX
  \/ LenMayBeX
  \/ IterMayBeX
  \/ HashMayBeX
  \/ LenXor
  \/ IterXor
  \/ HashXor

SpecFrame == Init /\ [][NextFrame]_vars

\* Xor.sequence over the Xors a caller built: at most MaxSeq of them, each
\* holding one of SeqAtoms, and the iterator and the Xor that sequence makes.
SeqAtoms == {None, FortyTwo, Sentinel}

DoS(op, arg, xs, ii, r) ==
  /\ Len(r.heap) <= MaxSeq + 2
  /\ Record(op, None, arg, "", xs, ii, r)

\* x = Xor(v, side)
NewXorS ==
  /\ Idle
  /\ Len(heap) < MaxSeq
  /\ \E v \in SeqAtoms, side \in {LEFT, RIGHT} :
      DoS("Xor", v, <<>>, side, Xor_init(heap, v, side))

\* Xor.sequence(xs)
SequenceXorS ==
  /\ Idle
  /\ Len(heap) <= MaxSeq
  /\ \E xs \in SeqsOf(Xors(heap)) :
      DoS("Xor.sequence", None, xs, 0, Xor_sequence(heap, xs))

NextSeq ==
  \/ Resume
  \/ NewXorS
  \/ SequenceXorS

SpecSeq == Init /\ [][NextSeq]_vars

(***************************************************************************)
(* grscheller.fp.err_handling: class MB and class XOR                      *)
(***************************************************************************)
\* An MB holds _value; an XOR holds _left in value and _right as its one item.
\* The sentinel of these classes is Sentinel(), written Sentinel here too.
MBObj(v) == [cls |-> "MB", value |-> v, side |-> NoSide, items |-> <<>>]
XORObj(l, r) == [cls |-> "XOR", value |-> l, side |-> NoSide, items |-> <<r>>]
LeftOf(h, x) == h[x.ref].value
RightOf(h, x) == h[x.ref].items[1]
MBs(h) == {r \in Refs(h) : ClsOf(h, r) = "MB"}
XORs(h) == {r \in Refs(h) : ClsOf(h, r) = "XOR"}

\* MB.__init__: the value of an MB argument, the left of an XOR argument,
\* and any other value as it is.
MB_init(h, value) ==
  LET d == IF value = Sentinel THEN Sentinel
           ELSE IF ClsOf(h, value) \in {"MB", "XOR"} THEN h[value.ref].value
           ELSE value
  IN  Return(Append(h, MBObj(d)), Ref(Len(h) + 1), 0)

\* XOR.__init__: an MB given as left is unwrapped.
XOR_init(h, left, right) ==
  IF right = Sentinel THEN Raise(h, "ValueError", 0)
  ELSE LET l == IF ClsOf(h, left) = "MB" THEN h[left.ref].value ELSE left IN
       Return(Append(h, XORObj(l, right)), Ref(Len(h) + 1), 0)

\* XOR.__bool__
XOR_bool(h, self) == LeftOf(h, self) # Sentinel

\* XOR.getLeft
XOR_getLeft(h, self, altLeft) ==
  IF LeftOf(h, self) = Sentinel
  THEN IF altLeft = Sentinel THEN Raise(h, "ValueError", 0) ELSE Return(h, altLeft, 0)
  ELSE Return(h, LeftOf(h, self), 0)

\* XOR.swapRight
XOR_swapRight(h, self, right) ==
  IF LeftOf(h, self) = Sentinel THEN XOR_init(h, Sentinel, RightOf(h, self))
  ELSE LET g == XOR_getLeft(h, self, Sentinel) IN
       IF g.exc # "" THEN g ELSE XOR_init(g.heap, g.ret, right)

\* The values callers store in an MB or an XOR.
GrAtoms == {None, FortyTwo}

\* m = MB(v), and m = MB() when v is the default
NewMB ==
  /\ Idle
  /\ \E v \in GrAtoms \cup {Sentinel} \cup Refs(heap) :
      Do("MB", None, v, "", <<>>, MB_init(heap, v))

\* x = XOR(left, right), and x = XOR(right=right) when left is the default
NewXOR ==
  /\ Idle
  /\ \E l \in GrAtoms \cup {Sentinel} \cup MBs(heap), r \in GrAtoms \cup {Sentinel} :
      Do("XOR", l, r, "", <<>>, XOR_init(heap, l, r))

GetLeftXOR ==
  /\ Idle
  /\ \E x \in XORs(heap), alt \in GrAtoms \cup {Sentinel} :
      Do("getLeft", x, alt, "", <<>>, XOR_getLeft(heap, x, alt))

SwapRightXOR ==
  /\ Idle
  /\ \E x \in XORs(heap), right \in GrAtoms :
      Do("swapRight", x, right, "", <<>>, XOR_swapRight(heap, x, right))

NextSwap ==
  \/ Resume
  \/ NewMB
  \/ NewXOR
  \/ GetLeftXOR
  \/ SwapRightXOR

SpecSwap == Init /\ [][NextSwap]_vars

(***************************************************************************)
(* grscheller.fp.woException: class MB, class XOR and the conversions      *)
(***************************************************************************)
\* As above, an XOR holds _left in value and _right as its one item.
woMBObj(v) == [cls |-> "woException.MB", value |-> v, side |-> NoSide, items |-> <<>>]
woXORObj(l, r) == [cls |-> "woException.XOR", value |-> l, side |-> NoSide, items |-> <<r>>]
woMBs(h) == {r \in Refs(h) : ClsOf(h, r) = "woException.MB"}
woXORs(h) == {r \in Refs(h) : ClsOf(h, r) = "woException.XOR"}

\* MB.__init__: MB() is MB(nada).
woMB_init(h, value) == Return(Append(h, woMBObj(value)), Ref(Len(h) + 1), 0)

\* MB.__bool__
woMB_bool(h, self) == h[self.ref].value # nada

\* MB.__eq__
woMB_eq(h, self, other) ==
  IF ClsOf(h, other) # "woException.MB" THEN FALSE
  ELSE IF h[self.ref].value = h[other.ref].value THEN TRUE
  ELSE PyEq(h, h[self.ref].value, h[other.ref].value)

\* MB.get; get() is get(nada).
woMB_get(h, self, alt) ==
  IF h[self.ref].value # nada THEN Return(h, h[self.ref].value, 0)
  ELSE IF alt # nada THEN Return(h, alt, 0)
  ELSE Raise(h, "ValueError", 0)

\* XOR.__init__: XOR(right=right) is XOR(nada, right).
woXOR_init(h, left, right) == Return(Append(h, woXORObj(left, right)), Ref(Len(h) + 1), 0)

\* XOR.__bool__
woXOR_bool(h, self) == LeftOf(h, self) # nada

\* XOR.get; get() is get(nada).
woXOR_get(h, self, alt) ==
  IF LeftOf(h, self) = nada
  THEN IF alt = nada THEN Raise(h, "ValueError", 0) ELSE Return(h, alt, 0)
  ELSE Return(h, LeftOf(h, self), 0)

\* mb_to_xor
mb_to_xor(h, m, right) ==
  IF woMB_bool(h, m)
  THEN LET g == woMB_get(h, m, nada) IN
       IF g.exc # "" THEN g ELSE woXOR_init(g.heap, g.ret, right)
  ELSE woXOR_init(h, nada, right)

\* A mutant of xor_to_mb: the payload of a right is kept, not discarded.
xor_to_mb_keep(h, e) ==
  IF woXOR_bool(h, e) THEN woMB_init(h, LeftOf(h, e)) ELSE woMB_init(h, RightOf(h, e))

\* xor_to_mb
xor_to_mb(h, e) ==
  IF woXOR_bool(h, e)
  THEN LET g == woXOR_get(h, e, nada) IN
       IF g.exc # "" THEN g ELSE woMB_init(g.heap, g.ret)
  ELSE woMB_init(h, nada)

\* The values callers store, and nada, which stands for no value.
WoAtoms == {None, FortyTwo, NoValue, nada}
\* The right of an XOR a caller builds: a value, or nada for XOR(left).
WoRights == {FortyTwo, nada}

\* m = MB(v), and m = MB() when v is the default
NewMBwo ==
  /\ Idle
  /\ \E v \in WoAtoms :
      Do("MB", None, v, "", <<>>, woMB_init(heap, v))

\* e = XOR(left, right)
NewXORwo ==
  /\ Idle
  /\ \E l \in WoAtoms, r \in WoRights :
      Do("XOR", l, r, "", <<>>, woXOR_init(heap, l, r))

\* a == b
EqMBwo ==
  /\ Idle
  /\ \E a \in woMBs(heap), b \in woMBs(heap) :
      Do("eq", a, b, "", <<>>, Return(heap, Bool(woMB_eq(heap, a, b)), 0))

MbToXor ==
  /\ Idle
  /\ \E m \in woMBs(heap), r \in WoAtoms :
      Do("mb_to_xor", m, r, "", <<>>, mb_to_xor(heap, m, r))

XorToMb ==
  /\ Idle
  /\ \E e \in woXORs(heap) :
      Do("xor_to_mb", e, None, "", <<>>, xor_to_mb(heap, e))

NextConv ==
  \/ Resume
  \/ NewMBwo
  \/ NewXORwo
  \/ EqMBwo
  \/ MbToXor
  \/ XorToMb

SpecConv == Init /\ [][NextConv]_vars

(***************************************************************************)
(* Sentinel: one object for each name                                      *)
(***************************************************************************)
\* A sentinel object; value is the name it was requested by.
SentinelObj(name) == [cls |-> "Sentinel", value |-> Atom(name), side |-> NoSide,
                      items |-> <<>>]
Sentinels(h) == {r \in Refs(h) : ClsOf(h, r) = "Sentinel"}

\* Sentinel.__new__ run without interruption: the instance kept for the name
\* is made on the first request and returned on every request.
Sentinel_new(h, inst, name) ==
  IF inst[name] = None
  THEN Return(Append(h, SentinelObj(name)), Ref(Len(h) + 1), 0)
  ELSE Return(h, inst[name], 0)

\* s = Sentinel(name)
NewSentinel ==
  /\ Idle
  /\ \E n \in SentinelNames :
       LET r == Sentinel_new(heap, instances, n) IN
       /\ heap' = r.heap
       /\ instances' = [instances EXCEPT ![n] = r.ret]
       /\ last' = [NoCall EXCEPT !.op = "Sentinel", !.arg = Atom(n), !.ret = r.ret]
       /\ UNCHANGED <<threads, fold, run, lazies>>

\* a == b for sentinels and the values they stand in for
EqSentinel ==
  /\ Idle
  /\ \E a \in Sentinels(heap), b \in Sentinels(heap) \cup {None, NoValue, FortyTwo} :
       \E swap \in BOOLEAN :
         LET x == IF swap THEN b ELSE a
             y == IF swap THEN a ELSE b
         IN  Do("Sentinel.eq", x, y, "", <<>>, Return(heap, Bool(PyEq(heap, x, y)), 0))

NextSentinel ==
  \/ Resume
  \/ NewSentinel
  \/ EqSentinel

SpecSentinel == Init /\ [][NextSentinel]_vars

(***************************************************************************)
(* Sentinel.__new__ of grscheller.fp.singletons, statement by statement,   *)
(* run by several threads: a thread may be suspended between any two       *)
(* statements, and between making the object and storing it.               *)
(***************************************************************************)
At(t, pc) == threads[t].pc = pc
Goto(t, pc) == threads' = [threads EXCEPT ![t].pc = pc]

\* A thread calls Sentinel().
Enter(t) ==
  /\ At(t, "out")
  /\ Goto(t, "test")
  /\ UNCHANGED <<heap, last, instances, fold, run, lazies>>

\* if cls._instance is None:
Test(t) ==
  /\ At(t, "test")
  /\ Goto(t, IF instances[""] = None THEN "new" ELSE "return")
  /\ UNCHANGED <<heap, last, instances, fold, run, lazies>>

\* super(Sentinel, cls).__new__(cls)
New(t) ==
  /\ At(t, "new")
  /\ heap' = Append(heap, SentinelObj(""))
  /\ threads' = [threads EXCEPT ![t].pc = "store", ![t].obj = Ref(Len(heap) + 1)]
  /\ UNCHANGED <<last, instances, fold, run, lazies>>

\* cls._instance = <the new object>
Store(t) ==
  /\ At(t, "store")
  /\ instances' = [instances EXCEPT ![""] = threads[t].obj]
  /\ Goto(t, "hash")
  /\ UNCHANGED <<heap, last, fold, run, lazies>>

\* cls._hash = hash(((cls._instance,), cls._instance)); the hash is not kept.
Hash(t) ==
  /\ At(t, "hash")
  /\ Goto(t, "return")
  /\ UNCHANGED <<heap, last, instances, fold, run, lazies>>

\* return cls._instance
ReturnInstance(t) ==
  /\ At(t, "return")
  /\ threads' = [threads EXCEPT ![t].pc = "done", ![t].ret = instances[""]]
  /\ UNCHANGED <<heap, last, instances, fold, run, lazies>>

NextThreads ==
  \/ \E t \in Threads : Enter(t)
  \/ \E t \in Threads : Test(t)
  \/ \E t \in Threads : New(t)
  \/ \E t \in Threads : Store(t)
  \/ \E t \in Threads : Hash(t)
  \/ \E t \in Threads : ReturnInstance(t)

SpecThreads == Init /\ [][NextThreads]_vars

(***************************************************************************)
(* dtools.fp.iterables: reduceL and foldL over tuples of small integers     *)
(***************************************************************************)

\* The folding functions: add2 and funcL of test_fold, and two that raise at
\* an item 0, div with ZeroDivisionError and stop_on_zero with StopIteration.
FoldFuncs == {"add2", "funcL", "div", "stop_on_zero"}

\* The exception the function raises at an item 0, "" if it raises none.
RaisesAtZero(f) ==
  CASE f = "div" -> "ZeroDivisionError"
    [] f = "stop_on_zero" -> "StopIteration"
    [] OTHER -> ""

\* f(acc, v): the value returned, or the exception raised.
FoldCall(f, acc, v) ==
  CASE f = "add2" -> [ret |-> acc + v, exc |-> ""]
    [] f = "funcL" -> [ret |-> (acc - 1) * (v + 1), exc |-> ""]
    [] f = "swap(add2)" -> [ret |-> v + acc, exc |-> ""]
    [] f = "swap(funcL)" -> [ret |-> (v - 1) * (acc + 1), exc |-> ""]
    [] OTHER ->
         IF v = 0 THEN [ret |-> 0, exc |-> RaisesAtZero(f)]
         ELSE IF f = "div" THEN [ret |-> acc \div v, exc |-> ""]
         ELSE [ret |-> acc + v, exc |-> ""]

\* The error reduceL raises on an empty iterable.
EmptyFold == "StopIteration('Attemped to left fold an empty iterable.')"

FoldReturn(v, n) == [ret |-> v, exc |-> "", calls |-> n]
FoldRaise(e, n) == [ret |-> 0, exc |-> e, calls |-> n]

\* The loop of reduceL: for v in it: acc = f(acc, v)
RECURSIVE reduceL_loop(_, _, _, _)
reduceL_loop(it, f, acc, n) ==
  IF it = <<>> THEN FoldReturn(acc, n)
  ELSE LET r == FoldCall(f, acc, Head(it)) IN
       IF r.exc # "" THEN FoldRaise(r.exc, n + 1)
       ELSE reduceL_loop(Tail(it), f, r.ret, n + 1)

\* The loop of foldL: for v in iterable: acc = f(acc, v)
RECURSIVE foldL_loop(_, _, _, _)
foldL_loop(iterable, f, acc, n) ==
  IF iterable = <<>> THEN FoldReturn(acc, n)
  ELSE LET r == FoldCall(f, acc, Head(iterable)) IN
       IF r.exc # "" THEN FoldRaise(r.exc, n + 1)
       ELSE foldL_loop(Tail(iterable), f, r.ret, n + 1)

\* foldL
foldL(iterable, f, initial) == foldL_loop(iterable, f, initial, 0)

\* A mutant of reduceL: the fold starts at 0, so an empty iterable gives 0.
reduceL_from_zero(iterable, f) == foldL_loop(iterable, f, 0, 0)

\* reduceL
reduceL(iterable, f) ==
  IF iterable = <<>> THEN FoldRaise(EmptyFold, 0)
  ELSE reduceL_loop(Tail(iterable), f, Head(iterable), 0)

Items == 0..MaxItem
Initials == Items \cup {10}

\* The tuples of at most MaxFold items.
FoldSeqs == UNION {[1..n -> Items] : n \in 0..MaxFold}

CallReduceL ==
  /\ fold.op = ""
  /\ \E xs \in FoldSeqs, f \in FoldFuncs :
      LET r == reduceL(xs, f) IN
      /\ fold' = [op |-> "reduceL", xs |-> xs, f |-> f, initial |-> 0,
                  ret |-> r.ret, exc |-> r.exc, calls |-> r.calls]
      /\ UNCHANGED <<heap, last, instances, threads, run, lazies>>

CallFoldL ==
  /\ fold.op = ""
  /\ \E xs \in FoldSeqs, f \in FoldFuncs, initial \in Initials :
      LET r == foldL(xs, f, initial) IN
      /\ fold' = [op |-> "foldL", xs |-> xs, f |-> f, initial |-> initial,
                  ret |-> r.ret, exc |-> r.exc, calls |-> r.calls]
      /\ UNCHANGED <<heap, last, instances, threads, run, lazies>>

\* The caller has the result of the fold and may call the next one.
ResumeFold ==
  /\ fold.op # ""
  /\ fold' = NoFold
  /\ UNCHANGED <<heap, last, instances, threads, run, lazies>>

NextFold ==
  \/ CallReduceL
  \/ CallFoldL
  \/ ResumeFold

SpecFold == Init /\ [][NextFold]_vars

(***************************************************************************)
(* dtools.fp.iterables: dropping, taking and the short-circuit folds.       *)
(* An iterator is the sequence of the values it has still to yield.         *)
(***************************************************************************)

\* ResumeRun: the caller has the result and may call the next function.
ResumeRun ==
  /\ run.op # ""
  /\ run' = NoRun
  /\ UNCHANGED <<heap, last, instances, threads, fold, lazies>>

\* The predicates handed to the functions: lambda d: True, lambda d: False,
\* and ge1, ge2 in the manner of ge2 and ge8 of test_fold.
PredNames == {"true", "false", "ge1", "ge2"}
Pred(name) == [name |-> name, neg |-> FALSE]
Preds == {Pred(n) : n \in PredNames}

\* pred(v)
Holds(pred, v) ==
  LET b == CASE pred.name = "true" -> TRUE
             [] pred.name = "false" -> FALSE
             [] pred.name = "ge1" -> v >= 1
             [] pred.name = "ge2" -> v >= 2
  IN  IF pred.neg THEN ~b ELSE b

\* function.negate
negate(pred) == [pred EXCEPT !.neg = ~pred.neg]

\* The cell MB() of take_while_split: <<>> when empty, <<v>> when it holds v.
MB_put(val, v) == IF val = <<>> THEN <<v>> ELSE val
MB_get(val) == val[1]
MB_pop(val) == [ret |-> val[1], val |-> <<>>]

\* drop_while: the iterator that starts at the first value failing pred.
RECURSIVE drop_while(_, _)
drop_while(iterable, pred) ==
  IF iterable = <<>> THEN <<>>
  ELSE IF ~Holds(pred, Head(iterable)) THEN iterable
  ELSE drop_while(Tail(iterable), pred)

\* take_while_split: the shared iterator it, the cell value, the generator
\* _take_while (first) and the generator concat(value, it) (second), which
\* is not started, has yielded the cell, is in it, or has returned.
take_while_split(iterable, pred) ==
  [it |-> iterable, pred |-> pred, val |-> <<>>, first |-> "live",
   second |-> "new"]

\* A mutant of the first iterator: the value that fails pred is not kept.
NextFirst_lossy(t) ==
  IF t.first = "done" THEN [t |-> t, out |-> <<>>]
  ELSE IF t.it = <<>> THEN [t |-> [t EXCEPT !.first = "done"], out |-> <<>>]
  ELSE IF Holds(t.pred, Head(t.it))
       THEN [t |-> [t EXCEPT !.it = Tail(t.it)], out |-> <<Head(t.it)>>]
  ELSE [t |-> [t EXCEPT !.it = Tail(t.it), !.first = "done"], out |-> <<>>]

\* next() of the first iterator: out is <<>> at StopIteration.
NextFirst(t) ==
  IF t.first = "done" THEN [t |-> t, out |-> <<>>]
  ELSE IF t.it = <<>> THEN [t |-> [t EXCEPT !.first = "done"], out |-> <<>>]
  ELSE LET val == MB_put(t.val, Head(t.it)) IN
       IF Holds(t.pred, MB_get(val))
       THEN [t |-> [t EXCEPT !.it = Tail(t.it), !.val = MB_pop(val).val],
             out |-> <<MB_pop(val).ret>>]
       ELSE [t |-> [t EXCEPT !.it = Tail(t.it), !.val = val, !.first = "done"],
             out |-> <<>>]

\* next() of the second iterator: concat yields the cell's value if the
\* cell holds one when concat reaches it, and then the values of it.
NextSecond(t) ==
  IF t.second = "done" THEN [t |-> t, out |-> <<>>]
  ELSE IF t.second = "new" /\ t.val # <<>>
       THEN [t |-> [t EXCEPT !.second = "value"], out |-> <<t.val[1]>>]
  ELSE IF t.it = <<>> THEN [t |-> [t EXCEPT !.second = "done"], out |-> <<>>]
  ELSE [t |-> [t EXCEPT !.it = Tail(t.it), !.second = "it"],
        out |-> <<Head(t.it)>>]

\* take_while_split called by a caller who then reads the two iterators in
\* any order: out1 and out2 are the values read, end1 and end2 tell that the
\* iterator raised StopIteration, early that the second was read before the
\* first had ended.
Split ==
  /\ run.op = ""
  /\ \E xs \in FoldSeqs, pred \in Preds :
      run' = [op |-> "take_while_split", xs |-> xs, pred |-> pred,
              t |-> take_while_split(xs, pred), out1 |-> <<>>, out2 |-> <<>>,
              end1 |-> FALSE, end2 |-> FALSE, early |-> FALSE]
  /\ UNCHANGED <<heap, last, instances, threads, fold, lazies>>

ReadFirst ==
  /\ run.op = "take_while_split"
  /\ ~run.end1
  /\ LET n == NextFirst(run.t) IN
     run' = [run EXCEPT !.t = n.t, !.out1 = @ \o n.out, !.end1 = (n.out = <<>>)]
  /\ UNCHANGED <<heap, last, instances, threads, fold, lazies>>

ReadSecond ==
  /\ run.op = "take_while_split"
  /\ ~run.end2
  /\ LET n == NextSecond(run.t) IN
     run' = [run EXCEPT !.t = n.t, !.out2 = @ \o n.out, !.end2 = (n.out = <<>>),
                        !.early = @ \/ ~run.end1]
  /\ UNCHANGED <<heap, last, instances, threads, fold, lazies>>

NextSplit ==
  \/ Split
  \/ ReadFirst
  \/ ReadSecond
  \/ ResumeRun

SpecSplit == Init /\ [][NextSplit]_vars

\* The first iterator read to its end: for v in it.
RECURSIVE DrainFirst(_)
DrainFirst(t) ==
  LET n == NextFirst(t) IN
  IF n.out = <<>> THEN [t |-> n.t, outs |-> <<>>]
  ELSE LET d == DrainFirst(n.t) IN [t |-> d.t, outs |-> n.out \o d.outs]

\* The second iterator read to its end.
RECURSIVE DrainSecond(_)
DrainSecond(t) ==
  LET n == NextSecond(t) IN
  IF n.out = <<>> THEN [t |-> n.t, outs |-> <<>>]
  ELSE LET d == DrainSecond(n.t) IN [t |-> d.t, outs |-> n.out \o d.outs]

\* A result (reduced, it3), it3 given as the values it yields, or an exception.
ScReturn(v, t) == [ret |-> v, exc |-> "", rest |-> DrainSecond(t).outs]
ScRaise(e) == [ret |-> 0, exc |-> e, rest |-> <<>>]

\* scReduceL
scReduceL(iterable, f, start, stop, include_start, include_stop) ==
  LET it1 == drop_while(iterable, negate(start))
      t0 == take_while_split(it1, negate(stop))
      t1 == IF include_start THEN t0 ELSE NextFirst(t0).t
      d == DrainFirst(t1)
      reduced == reduceL(d.outs, f)
  IN  IF reduced.exc # "" THEN ScRaise(reduced.exc)
      ELSE IF include_stop
           THEN LET n == NextSecond(d.t) IN
                IF n.out = <<>> THEN ScReturn(reduced.ret, n.t)
                ELSE LET r == FoldCall(f, reduced.ret, n.out[1]) IN
                     IF r.exc = "" THEN ScReturn(r.ret, n.t)
                     ELSE IF r.exc = "StopIteration"
                          THEN ScReturn(reduced.ret, n.t)
                     ELSE ScRaise(r.exc)
      ELSE ScReturn(reduced.ret, d.t)

\* function.swap
swap(f) ==
  CASE f = "add2" -> "swap(add2)"
    [] f = "funcL" -> "swap(funcL)"

\* l1.reverse()
RECURSIVE reverse(_)
reverse(l) == IF l = <<>> THEN <<>> ELSE reverse(Tail(l)) \o <<Head(l)>>

\* scReduceR
scReduceR(iterable, f, start, stop, include_start, include_stop) ==
  LET t0 == take_while_split(iterable, negate(start))
      d1 == DrainFirst(t0)
      b == IF include_start THEN NextSecond(d1.t) ELSE [t |-> d1.t, out |-> <<>>]
      l1 == reverse(d1.outs \o b.out)
      u0 == take_while_split(l1, negate(stop))
      d3 == DrainFirst(u0)
      reduced == reduceL(d3.outs, swap(f))
  IN  IF reduced.exc # "" THEN ScRaise(reduced.exc)
      ELSE IF include_stop
           THEN LET n == NextSecond(d3.t) IN
                IF n.out = <<>> THEN ScReturn(reduced.ret, b.t)
                ELSE LET r == FoldCall(f, n.out[1], reduced.ret) IN
                     IF r.exc = "" THEN ScReturn(r.ret, b.t) ELSE ScRaise(r.exc)
      ELSE ScReturn(reduced.ret, b.t)

ScFuncs == {"add2", "funcL"}

CallScReduceL ==
  /\ run.op = ""
  /\ \E xs \in FoldSeqs, f \in ScFuncs, start \in Preds, stop \in Preds,
        include_start \in BOOLEAN, include_stop \in BOOLEAN :
      LET r == scReduceL(xs, f, start, stop, include_start, include_stop) IN
      /\ run' = [op |-> "scReduceL", xs |-> xs, f |-> f, start |-> start,
                 stop |-> stop, include_start |-> include_start,
                 include_stop |-> include_stop,
                 ret |-> r.ret, exc |-> r.exc, rest |-> r.rest]
      /\ UNCHANGED <<heap, last, instances, threads, fold, lazies>>

CallScReduceR ==
  /\ run.op = ""
  /\ \E xs \in FoldSeqs, f \in ScFuncs, start \in Preds, stop \in Preds,
        include_start \in BOOLEAN, include_stop \in BOOLEAN :
      LET r == scReduceR(xs, f, start, stop, include_start, include_stop) IN
      /\ run' = [op |-> "scReduceR", xs |-> xs, f |-> f, start |-> start,
                 stop |-> stop, include_start |-> include_start,
                 include_stop |-> include_stop,
                 ret |-> r.ret, exc |-> r.exc, rest |-> r.rest]
      /\ UNCHANGED <<heap, last, instances, threads, fold, lazies>>

NextScR ==
  \/ CallScReduceR
  \/ ResumeRun

SpecScR == Init /\ [][NextScR]_vars

NextScL ==
  \/ CallScReduceL
  \/ ResumeRun

SpecScL == Init /\ [][NextScL]_vars

(***************************************************************************)
(* grscheller.fp.iterators: merge and exhaust                               *)
(***************************************************************************)

\* The j-th value of the i-th iterable, as 'a0', 'b0', ... of iterator_test.
Val(i, j) == 10 * i + j

\* The iterables handed to merge and exhaust: at most MaxIters of them, of
\* at most MaxLen values each, no value in two places.
Iterables ==
  {[i \in 1..Len(lens) |-> [j \in 1..lens[i] |-> Val(i, j)]] :
     lens \in UNION {[1..k -> 0..MaxLen] : k \in 0..MaxIters}}

\* del iterList[ii]
Del(l, ii) == SubSeq(l, 1, ii - 1) \o SubSeq(l, ii + 1, Len(l))

\* One round of merge: for ii in range(numIters): values.append(next(...))
RECURSIVE merge_round(_, _, _)
merge_round(iterList, ii, values) ==
  IF ii > Len(iterList)
  THEN [iterList |-> iterList, values |-> values, stop |-> FALSE]
  ELSE IF iterList[ii] = <<>>
       THEN [iterList |-> iterList, values |-> values, stop |-> TRUE]
  ELSE merge_round([iterList EXCEPT ![ii] = Tail(@)], ii + 1,
                   Append(values, Head(iterList[ii])))

\* The while loop of merge: the values yielded, the values drawn in the round
\* that met StopIteration, and the iterators as they are left.
RECURSIVE merge_loop(_, _)
merge_loop(iterList, out) ==
  LET r == merge_round(iterList, 1, <<>>) IN
  IF r.stop THEN [out |-> out, values |-> r.values, iterList |-> r.iterList]
  ELSE merge_loop(r.iterList, out \o r.values)

\* A mutant of merge: the values of the incomplete round are never yielded.
merge_no_partials(iterables, yield_partials) ==
  IF Len(iterables) = 0 THEN [out |-> <<>>, iterList |-> <<>>]
  ELSE LET l == merge_loop(iterables, <<>>) IN
       [out |-> l.out, iterList |-> l.iterList]

\* merge, read to its end
merge(iterables, yield_partials) ==
  IF Len(iterables) = 0 THEN [out |-> <<>>, iterList |-> <<>>]
  ELSE LET l == merge_loop(iterables, <<>>) IN
       [out |-> IF yield_partials THEN l.out \o l.values ELSE l.out,
        iterList |-> l.iterList]

\* The while loop of exhaust, ii counted from 0 as in the code.
RECURSIVE exhaust_loop(_, _, _, _, _)
exhaust_loop(iterList, numIters, ii, values, out) ==
  IF ii < numIters
  THEN IF iterList[ii + 1] = <<>>
       THEN IF numIters - 1 < 1 THEN out \o values
            ELSE exhaust_loop(Del(iterList, ii + 1), numIters - 1, ii, values, out)
       ELSE exhaust_loop([iterList EXCEPT ![ii + 1] = Tail(@)], numIters, ii + 1,
                         Append(values, Head(iterList[ii + 1])), out)
  ELSE exhaust_loop(iterList, numIters, 0, <<>>, out \o values)

\* A mutant of exhaust: it stops as merge does, yielding the partial round.
exhaust_until_first(iterables) == merge(iterables, TRUE).out

\* exhaust, read to its end
exhaust(iterables) ==
  IF Len(iterables) = 0 THEN <<>>
  ELSE exhaust_loop(iterables, Len(iterables), 0, <<>>, <<>>)

CallMerge ==
  /\ run.op = ""
  /\ \E iterables \in Iterables, yield_partials \in BOOLEAN :
      LET r == merge(iterables, yield_partials) IN
      /\ run' = [op |-> "merge", iterables |-> iterables,
                 yield_partials |-> yield_partials, out |-> r.out,
                 iterList |-> r.iterList]
      /\ UNCHANGED <<heap, last, instances, threads, fold, lazies>>

CallExhaust ==
  /\ run.op = ""
  /\ \E iterables \in Iterables :
      /\ run' = [op |-> "exhaust", iterables |-> iterables,
                 out |-> exhaust(iterables)]
      /\ UNCHANGED <<heap, last, instances, threads, fold, lazies>>

NextIters ==
  \/ CallMerge
  \/ CallExhaust
  \/ ResumeRun

SpecIters == Init /\ [][NextIters]_vars

(***************************************************************************)
(* dtools.fp.lazy: class Lazy.  lazies holds the Lazy objects built, each   *)
(* with its slots and the numbers of calls made of its eval and of its f.   *)
(* An MB is <<>> when empty and <<v>> when it holds v; an XOR is a value    *)
(* with a side.                                                             *)
(***************************************************************************)

\* XOR(value, side) and the methods of it that Lazy uses.
LzXOR(value, side) == [value |-> value, side |-> side]
LzXOR_bool(x) == x.side = LEFT
LzXOR_eq(x, y) ==
  \/ LzXOR_bool(x) /\ LzXOR_bool(y) /\ x.value = y.value
  \/ ~LzXOR_bool(x) /\ ~LzXOR_bool(y) /\ x.value = y.value
LzXOR_get_right(x) == IF x.side = RIGHT THEN <<x.value>> ELSE <<>>

\* The functions wrapped: succ returns d + 1, counter returns the number of
\* times it was called, fails raises ValueError.
LazyFuncs == {"succ", "counter", "fails"}

\* self._f(self._d), f called n times before.
LazyCall(f, d, n) ==
  CASE f = "succ" -> [ret |-> d + 1, exc |-> ""]
    [] f = "counter" -> [ret |-> n + 1, exc |-> ""]
    [] f = "fails" -> [ret |-> 0, exc |-> "ValueError"]

\* Lazy.__init__
Lazy_init(f, d, pure) ==
  [f |-> f, d |-> d, pure |-> pure, result |-> LzXOR(<<>>, RIGHT),
   evals |-> 0, calls |-> 0]

\* lazy
lazy(f, d) == Lazy_init(f, d, FALSE)

\* real_lazy
real_lazy(f, d) == Lazy_init(f, d, TRUE)

\* Lazy.__bool__
Lazy_bool(self) ==
  IF LzXOR_bool(self.result) THEN TRUE
  ELSE ~LzXOR_eq(self.result, LzXOR(<<>>, RIGHT))

\* A mutant of Lazy.eval: the function is evaluated at every call.
Lazy_eval_always(self) ==
  LET r == LazyCall(self.f, self.d, self.calls) IN
  [self |-> [self EXCEPT !.result = LzXOR(r.ret, LEFT), !.evals = @ + 1,
                         !.calls = @ + 1],
   exc |-> ""]

\* Lazy.eval: when f raises, the exception is stored and the assignment
\* after the try reads the local `result`, which was never bound.
Lazy_eval(self) ==
  IF ~self.pure \/ ~Lazy_bool(self)
  THEN LET r == LazyCall(self.f, self.d, self.calls) IN
       IF r.exc # ""
       THEN [self |-> [self EXCEPT !.result = LzXOR(<<r.exc>>, RIGHT),
                                   !.evals = @ + 1, !.calls = @ + 1],
             exc |-> "UnboundLocalError"]
       ELSE [self |-> [self EXCEPT !.result = LzXOR(r.ret, LEFT),
                                   !.evals = @ + 1, !.calls = @ + 1],
             exc |-> ""]
  ELSE [self |-> [self EXCEPT !.evals = @ + 1], exc |-> ""]

\* Lazy.got_result
Lazy_got_result(self) ==
  IF Lazy_bool(self)
  THEN IF LzXOR_get_right(self.result) # <<>> THEN <<FALSE>> ELSE <<TRUE>>
  ELSE <<>>

\* Lazy.got_exception
Lazy_got_exception(self) ==
  IF Lazy_bool(self)
  THEN IF LzXOR_get_right(self.result) # <<>> THEN <<TRUE>> ELSE <<FALSE>>
  ELSE <<>>

\* Lazy.get_result
Lazy_get_result(self) ==
  IF Lazy_bool(self) /\ LzXOR_bool(self.result) THEN <<self.result.value>>
  ELSE <<>>

\* Lazy.get_exception
Lazy_get_exception(self) ==
  IF Lazy_bool(self) /\ LzXOR_bool(self.result) THEN <<>>
  ELSE LzXOR_get_right(self.result)

LazyArgs == {0, 41}

NewLazy ==
  /\ run.op = ""
  /\ Len(lazies) < MaxLazy
  /\ \E f \in LazyFuncs, d \in LazyArgs :
     \E l \in {lazy(f, d), real_lazy(f, d)} :
      /\ lazies' = Append(lazies, l)
      /\ run' = [op |-> "Lazy", self |-> Len(lazies) + 1, exc |-> ""]
  /\ UNCHANGED <<heap, last, instances, threads, fold>>

EvalLazy ==
  /\ run.op = ""
  /\ \E i \in 1..Len(lazies) :
      /\ lazies[i].evals < MaxEvals
      /\ LET r == Lazy_eval(lazies[i]) IN
         /\ lazies' = [lazies EXCEPT ![i] = r.self]
         /\ run' = [op |-> "eval", self |-> i, exc |-> r.exc]
  /\ UNCHANGED <<heap, last, instances, threads, fold>>

\* bool(l), got_result, got_exception, get_result and get_exception of a Lazy
QueryLazy ==
  /\ run.op = ""
  /\ \E i \in 1..Len(lazies) :
      run' = [op |-> "query", self |-> i, exc |-> "",
              bool |-> Lazy_bool(lazies[i]),
              got_result |-> Lazy_got_result(lazies[i]),
              got_exception |-> Lazy_got_exception(lazies[i]),
              get_result |-> Lazy_get_result(lazies[i]),
              get_exception |-> Lazy_get_exception(lazies[i])]
  /\ UNCHANGED <<heap, last, instances, threads, fold, lazies>>

\* The caller goes on after a call on a Lazy.
ResumeLazy ==
  /\ run.op # ""
  /\ run' = NoRun
  /\ UNCHANGED <<heap, last, instances, threads, fold, lazies>>

NextLazy ==
  \/ NewLazy
  \/ EvalLazy
  \/ QueryLazy
  \/ ResumeLazy

SpecLazy == Init /\ [][NextLazy]_vars

(***************************************************************************)
(* grscheller.fp.iterables: dropWhile                                       *)
(***************************************************************************)

\* The while loop of dropWhile: value is the value last drawn, it the rest.
RECURSIVE dropWhile_loop(_, _, _)
dropWhile_loop(value, it, pred) ==
  IF ~Holds(pred, value) THEN [value |-> value, it |-> it]
  ELSE IF it = <<>> THEN [value |-> value, it |-> it]
  ELSE dropWhile_loop(Head(it), Tail(it), pred)

\* dropWhile, as the values the iterator it returns yields
dropWhile(iterable, pred) ==
  IF iterable = <<>> THEN <<>>
  ELSE LET l == dropWhile_loop(Head(iterable), Tail(iterable), pred) IN
       <<l.value>> \o l.it

\* An optional argument of foldL_sc: <<>> is None, <<v>> the value v.  The
\* same for an MB of woException: <<>> is MB(), <<v>> is MB(v).
Options == {<<>>} \cup {<<v>> : v \in Items}

\* The predicates of foldL_sc: the default lambda d, t: MB(t), and
\* fold_is_lt3 in the manner of fold_is_lt42 of fold_sc_test.
ScPreds == {"default", "fold_is_lt3"}

\* predicate(d, t)
Predicate(pred, d, t) ==
  IF pred = "default" THEN <<t>>
  ELSE IF t + d < 3 THEN <<t + d>> ELSE <<>>

\* The for loop of foldL_sc; accs and ds are the arguments f was called with.
RECURSIVE foldL_sc_loop(_, _, _, _, _, _, _, _)
foldL_sc_loop(it, f, acc, sentinel, predicate, state_mb, accs, ds) ==
  IF it = <<>> THEN [ret |-> <<acc>>, accs |-> accs, ds |-> ds]
  ELSE LET d == Head(it) IN
       IF sentinel # <<>> /\ d = sentinel[1]
       THEN [ret |-> <<acc>>, accs |-> accs, ds |-> ds]
       ELSE LET mb == Predicate(predicate, d, state_mb[1]) IN
            IF mb # <<>>
            THEN foldL_sc_loop(Tail(it), f, FoldCall(f, acc, d).ret, sentinel,
                               predicate, mb, Append(accs, acc), Append(ds, d))
            ELSE [ret |-> <<acc>>, accs |-> accs, ds |-> ds]

\* foldL_sc
foldL_sc(iterable, f, init, sent, pred, istate) ==
  IF init = <<>>
  THEN IF iterable = <<>> THEN [ret |-> sent, accs |-> <<>>, ds |-> <<>>]
       ELSE foldL_sc_loop(Tail(iterable), f, Head(iterable), sent, pred,
                          <<istate>>, <<>>, <<>>)
  ELSE foldL_sc_loop(iterable, f, init[1], sent, pred, <<istate>>, <<>>, <<>>)

CallFoldLSc ==
  /\ run.op = ""
  /\ \E xs \in FoldSeqs, f \in ScFuncs, init \in Options, sent \in Options,
        pred \in ScPreds :
      LET r == foldL_sc(xs, f, init, sent, pred, 0) IN
      /\ run' = [op |-> "foldL_sc", xs |-> xs, f |-> f, init |-> init,
                 sent |-> sent, pred |-> pred, ret |-> r.ret,
                 accs |-> r.accs, ds |-> r.ds]
      /\ UNCHANGED <<heap, last, instances, threads, fold, lazies>>

NextFoldSc ==
  \/ CallFoldLSc
  \/ ResumeRun

SpecFoldSc == Init /\ [][NextFoldSc]_vars

CallDropWhile ==
  /\ run.op = ""
  /\ \E xs \in FoldSeqs, pred \in Preds :
      /\ run' = [op |-> "dropWhile", xs |-> xs, pred |-> pred,
                 out |-> dropWhile(xs, pred)]
      /\ UNCHANGED <<heap, last, instances, threads, fold, lazies>>

NextDrop ==
  \/ CallDropWhile
  \/ ResumeRun

SpecDrop == Init /\ [][NextDrop]_vars

(***************************************************************************)
(* Properties of MayBe                                                     *)
(***************************************************************************)
ValueOf(h, m) == h[m.ref].value
Alts(h) == UserVals(h) \cup {Sentinel}

\* C1: for every value x other than the sentinel (None, '', 0, NoValue() and
\* an empty MayBe included) MayBe(x) is truthy, has len 1, and get() and
\* get(alt) return x; the MayBe built without a value is the empty one.
C1_MayBeHoldsAnyValue ==
  last.op = "MayBe" =>
    LET m == last.ret
        x == last.arg
    IN  IF x # Sentinel
        THEN /\ MayBe_bool(heap, m)
             /\ MayBe_len(heap, m) = 1
             /\ \A alt \in Alts(heap) :
                  LET g == MayBe_get(heap, m, alt) IN g.exc = "" /\ g.ret = x
        ELSE ~MayBe_bool(heap, m) /\ MayBe_len(heap, m) = 0

\* C1 happens: an empty MayBe has just been wrapped in a MayBe.
C1_Witness ==
  /\ last.op = "MayBe"
  /\ IsMayBe(heap, last.arg)
  /\ ~MayBe_bool(heap, last.arg)

\* C2: a == b iff both are empty, or both are non-empty and their contents
\* are the same object or compare equal; so an empty MayBe never equals a
\* non-empty one, and identical contents suffice.
C2_MayBeEquality ==
  last.op = "eq" =>
    LET a == last.self
        b == last.arg
    IN  (last.ret = Bool(TRUE)) <=>
          \/ ~MayBe_bool(heap, a) /\ ~MayBe_bool(heap, b)
          \/ /\ MayBe_bool(heap, a)
             /\ MayBe_bool(heap, b)
             /\ \/ ValueOf(heap, a) = ValueOf(heap, b)
                \/ PyEq(heap, ValueOf(heap, a), ValueOf(heap, b))

\* C2 happens: two different MayBe objects holding NoValue() compared equal.
C2_Witness ==
  /\ last.op = "eq"
  /\ last.self # last.arg
  /\ ValueOf(heap, last.self) = NoValue
  /\ ValueOf(heap, last.arg) = NoValue
  /\ last.ret = Bool(TRUE)

\* C3: for f and g that do not raise, map and bind on the empty MayBe return
\* an empty MayBe without invoking f or g; MayBe(x).map(f) == MayBe(f(x));
\* MayBe(x).bind(g) is g(x) itself.
C3_MapBindLaws ==
  [][last'.op \in {"map", "bind"} =>
       LET m == last'.self
           f == last'.f
       IN  IF ~MayBe_bool(heap, m)
           THEN /\ last'.calls = 0
                /\ last'.exc = ""
                /\ IsMayBe(heap', last'.ret)
                /\ ~MayBe_bool(heap', last'.ret)
                /\ heap' = heap
           ELSE LET c == Call(heap, f, ValueOf(heap, m)) IN
                c.exc = "" =>
                  /\ last'.exc = ""
                  /\ last'.calls = 1
                  /\ IF last'.op = "map"
                     THEN LET mk == MayBe_init(heap', c.ret) IN
                          /\ IsMayBe(heap', last'.ret)
                          /\ MayBe_eq(mk.heap, last'.ret, mk.ret)
                     ELSE last'.ret = c.ret /\ heap' = c.heap]_vars

\* C3 happens: bind of a MayBe-returning function over a non-empty MayBe
\* returned a non-empty MayBe.
C3_Witness ==
  /\ last.op = "bind"
  /\ last.f = "MayBe_if_42"
  /\ MayBe_bool(heap, last.self)
  /\ IsMayBe(heap, last.ret)
  /\ MayBe_bool(heap, last.ret)

\* f raises when applied to the content of the receiver of the last call.
RaisesOnContent ==
  /\ last.op \in {"map", "bind"}
  /\ MayBe_bool(heap, last.self)
  /\ Call(heap, last.f, ValueOf(heap, last.self)).exc # ""

C6_NoImplicitFlatten ==
  (last.op = "MayBe" /\ IsMayBe(heap, last.arg)) =>
    LET mm == last.ret
        m == last.arg
        b == MayBe_bind(heap, mm, "identity")
    IN  /\ MayBe_bool(heap, mm)
        /\ MayBe_get(heap, mm, Sentinel).ret = m
        /\ \A o \in MayBes(heap) :
             MayBe_eq(heap, o, m) =>
               ~MayBe_eq(heap, mm, o) /\ ~MayBe_eq(heap, o, mm)
        /\ b.exc = ""
        /\ b.ret = m
        /\ MayBe_eq(heap, b.ret, m)

\* C6 happens: a non-empty MayBe has just been wrapped in a MayBe.
C6_Witness ==
  /\ last.op = "MayBe"
  /\ IsMayBe(heap, last.arg)
  /\ MayBe_bool(heap, last.arg)

\* The first index of xs holding an empty MayBe, 0 when there is none.
FirstEmpty(h, xs) ==
  LET E == {i \in 1..Len(xs) : ~MayBe_bool(h, xs[i])} IN
  IF E = {} THEN 0 ELSE CHOOSE i \in E : \A j \in E : i <= j

SideOf(h, x) == h[x.ref].side

\* C5: get() on an empty MayBe raises ValueError and get(alt) on an empty
\* MayBe returns alt, None included; Xor.get() returns the value of a left
\* and raises ValueError on every right whatever it holds; no object changes.
C5_AbsenceErrors ==
  [][/\ last'.op = "get" =>
          LET m == last'.self
              alt == last'.arg
          IN  /\ heap' = heap
              /\ heap[m.ref].value = Sentinel =>
                   IF alt = Sentinel
                   THEN last'.exc = "ValueError" /\ last'.ret = NoReturn
                   ELSE last'.exc = "" /\ last'.ret = alt
     /\ last'.op = "Xor.get" =>
          LET x == last'.self IN
          /\ heap' = heap
          /\ IF SideOf(heap, x) = LEFT
             THEN last'.exc = "" /\ last'.ret = ValueOf(heap, x)
             ELSE last'.exc = "ValueError" /\ last'.ret = NoReturn]_vars

\* C5 happens: get() was called on a right Xor holding 42.
C5_Witness ==
  /\ last.op = "Xor.get"
  /\ SideOf(heap, last.self) = RIGHT
  /\ ValueOf(heap, last.self) = FortyTwo
  /\ last.exc = "ValueError"

\* The methods that return an Xor.
XorMakers == {"Xor", "Xor(v)", "Xor.map", "map_right", "Xor.bind", "Xor.map_except",
              "Xor.bind_except", "Xor.call", "Xor.idx", "Xor.sequence"}

NonEmpty(r) == MayBe_bool(r.heap, r.ret)

\* C8 as stated: of every Xor exactly one of get_left() and get_right() is a
\* non-empty MayBe, bool(xor) is True iff it is get_left(), and Xor(v) is a left.
C8_AsStated ==
  /\ \A x \in Xors(heap) :
       LET gl == Xor_get_left(heap, x)
           gr == Xor_get_right(heap, x)
       IN  /\ NonEmpty(gl) # NonEmpty(gr)
           /\ Xor_bool(heap, x) <=> NonEmpty(gl)
  /\ last.op = "Xor(v)" => Xor_bool(heap, last.ret)

\* C8 amended: every Xor built with a LEFT/RIGHT side or returned by a method
\* has exactly one side, and bool(xor) is True iff the side is LEFT; get_left()
\* is non-empty iff the Xor is a left whose value is not Sentinel('MayBe'),
\* get_right() iff it is a right whose value is not that sentinel, and the
\* non-empty one holds the value; Xor(v) is a left.
C8_ExactlyOneSide ==
  /\ \A x \in Xors(heap) :
       LET gl == Xor_get_left(heap, x)
           gr == Xor_get_right(heap, x)
           v == ValueOf(heap, x)
       IN  /\ SideOf(heap, x) \in {LEFT, RIGHT}
           /\ Xor_bool(heap, x) <=> SideOf(heap, x) = LEFT
           /\ NonEmpty(gl) <=> (SideOf(heap, x) = LEFT /\ v # Sentinel)
           /\ NonEmpty(gr) <=> (SideOf(heap, x) = RIGHT /\ v # Sentinel)
           /\ NonEmpty(gl) => MayBe_get(gl.heap, gl.ret, Sentinel).ret = v
           /\ NonEmpty(gr) => MayBe_get(gr.heap, gr.ret, Sentinel).ret = v
  /\ last.op = "Xor(v)" => SideOf(heap, last.ret) = LEFT
  /\ (last.op \in XorMakers /\ last.exc = "") => IsXor(heap, last.ret)

\* C8 happens: map has returned a left Xor that holds Sentinel('MayBe').
C8_Witness ==
  /\ last.op = "Xor.map"
  /\ last.exc = ""
  /\ last.ret # last.self
  /\ SideOf(heap, last.ret) = LEFT
  /\ ValueOf(heap, last.ret) = Sentinel

\* C9: a == b iff a and b are on the same side and their values are the same
\* object or compare equal; a left never equals a right.
C9_XorEquality ==
  /\ \A a, b \in Xors(heap) :
       /\ Xor_eq(heap, a, b) <=>
            /\ SideOf(heap, a) = SideOf(heap, b)
            /\ \/ ValueOf(heap, a) = ValueOf(heap, b)
               \/ PyEq(heap, ValueOf(heap, a), ValueOf(heap, b))
       /\ SideOf(heap, a) # SideOf(heap, b) => ~Xor_eq(heap, a, b)
  /\ last.op = "Xor.eq" => last.ret = Bool(Xor_eq(heap, last.self, last.arg))

\* C9 happens: a left and a right Xor that hold 42 compared unequal.
C9_Witness ==
  /\ last.op = "Xor.eq"
  /\ SideOf(heap, last.self) = LEFT
  /\ SideOf(heap, last.arg) = RIGHT
  /\ ValueOf(heap, last.self) = FortyTwo
  /\ ValueOf(heap, last.arg) = FortyTwo
  /\ last.ret = Bool(FALSE)

\* C10: map and map_except over a right Xor holding r return a right Xor
\* equal to Xor(r, RIGHT), whatever f and the fallback are: f is not invoked,
\* the fallback is not used, and nothing is built or changed.
C10_RightInertUnderMap ==
  [][(/\ last'.op \in {"Xor.map", "Xor.map_except"}
      /\ SideOf(heap, last'.self) = RIGHT) =>
       LET r == ValueOf(heap, last'.self)
           mk == Xor_init(heap', r, RIGHT)
       IN  /\ last'.exc = ""
           /\ last'.calls = 0
           /\ heap' = heap
           /\ IsXor(heap', last'.ret)
           /\ SideOf(heap', last'.ret) = RIGHT
           /\ ValueOf(heap', last'.ret) = r
           /\ Xor_eq(mk.heap, last'.ret, mk.ret)
           /\ Xor_eq(mk.heap, mk.ret, last'.ret)]_vars

\* C10 happens: map_except of a raising function over a right Xor holding
\* None, with the fallback 42.
C10_Witness ==
  /\ last.op = "Xor.map_except"
  /\ SideOf(heap, last.self) = RIGHT
  /\ ValueOf(heap, last.self) = None
  /\ last.f = "os_error"
  /\ last.arg = FortyTwo

\* f applied to the value of the left receiver of the call being made.
Applied == Call(heap, last'.f, ValueOf(heap, last'.self))

\* The call being made is op on a left Xor.
OnLeft(op) == last'.op = op /\ SideOf(heap, last'.self) = LEFT

\* The call being made returned a new Xor on side sd that holds v.
Built(sd, v) ==
  /\ last'.exc = ""
  /\ IsXor(heap', last'.ret)
  /\ last'.ret \notin Refs(heap)
  /\ SideOf(heap', last'.ret) = sd
  /\ ValueOf(heap', last'.ret) = v

\* The exception e of f reached the caller.
Propagated(e) == last'.exc = e /\ last'.ret = NoReturn

BindExceptRight ==
  (last'.op = "Xor.bind_except" /\ SideOf(heap, last'.self) = RIGHT) =>
    /\ last'.exc = ""
    /\ last'.calls = 0
    /\ last'.ret = last'.self
    /\ Xor_eq(heap', last'.ret, last'.self)
    /\ heap' = heap

\* The call being made returned the very object f returned.
ExactlyApplied ==
  /\ last'.exc = ""
  /\ last'.ret = Applied.ret
  /\ heap' = Applied.heap
  /\ IsXor(heap', last'.ret)

C13_AsStated ==
  [][/\ last'.op = "map_right(g, alt)" =>
          IF SideOf(heap, last'.self) = RIGHT
          THEN IF Applied.exc = "" THEN Built(RIGHT, Applied.ret)
               ELSE Built(RIGHT, last'.arg)
          ELSE /\ last'.exc = ""
               /\ last'.calls = 0
               /\ IsXor(heap', last'.ret)
               /\ Xor_eq(heap', last'.ret, last'.self)
     /\ last'.op = "map_right" => last'.exc = ""]_vars

\* C13 happens: map_right(g, alt_right) was called on a right Xor with a g
\* that raises on its value.
C13_Witness ==
  /\ last.op = "map_right(g, alt)"
  /\ SideOf(heap, last.self) = RIGHT
  /\ ValueOf(heap, last.self) = None
  /\ last.f = "only42"
  /\ last.exc = "TypeError"

\* The first index of xs holding a right Xor, 0 when there is none.
FirstRight(h, xs) ==
  LET R == {i \in 1..Len(xs) : SideOf(h, xs[i]) = RIGHT} IN
  IF R = {} THEN 0 ELSE CHOOSE i \in R : \A j \in R : i <= j

\* The call being made returned a new left Xor holding an iterator over vs.
BuiltLeftOf(vs) ==
  /\ last'.exc = ""
  /\ IsXor(heap', last'.ret)
  /\ last'.ret \notin Refs(heap)
  /\ SideOf(heap', last'.ret) = LEFT
  /\ ClsOf(heap', ValueOf(heap', last'.ret)) = "list_iterator"
  /\ heap'[ValueOf(heap', last'.ret).ref].items = vs

C15_AsStated ==
  [][last'.op = "swapRight" =>
       /\ last'.exc = ""
       /\ ClsOf(heap', last'.ret) = "XOR"
       /\ LeftOf(heap', last'.ret) = LeftOf(heap, last'.self)
       /\ RightOf(heap', last'.ret) = last'.arg]_vars

\* C15 happens: swapRight(42) was called on a right XOR holding None.
C15_Witness ==
  /\ last.op = "swapRight"
  /\ ~XOR_bool(heap, last.self)
  /\ RightOf(heap, last.self) = None
  /\ last.arg = FortyTwo
  /\ last.exc = ""
  /\ ~XOR_bool(heap, last.ret)

\* C16: mb_to_xor(m, r) is a new left XOR holding the value of a non-empty
\* m and a new right XOR holding r for an empty m; xor_to_mb(e) is a new MB
\* of the left value of a left e and an empty MB for a right e, whatever its
\* payload; xor_to_mb(mb_to_xor(m, r)) == m for every MB m and every r.
C16_Conversions ==
  /\ last.op = "mb_to_xor" =>
       LET m == last.self
           e == last.ret
       IN  /\ last.exc = ""
           /\ ClsOf(heap, e) = "woException.XOR"
           /\ RightOf(heap, e) = last.arg
           /\ IF ValueOf(heap, m) # nada
              THEN woXOR_bool(heap, e) /\ LeftOf(heap, e) = ValueOf(heap, m)
              ELSE ~woXOR_bool(heap, e)
  /\ last.op = "xor_to_mb" =>
       LET e == last.self
           m == last.ret
       IN  /\ last.exc = ""
           /\ ClsOf(heap, m) = "woException.MB"
           /\ ValueOf(heap, m) = LeftOf(heap, e)
           /\ woMB_bool(heap, m) <=> woXOR_bool(heap, e)
  /\ \A m \in woMBs(heap), r \in WoAtoms :
       LET e == mb_to_xor(heap, m, r)
           b == xor_to_mb(e.heap, e.ret)
       IN  /\ b.exc = ""
           /\ woMB_eq(b.heap, b.ret, m)
           /\ woMB_eq(b.heap, m, b.ret)

\* C16 happens: an empty MB became a right XOR holding 42, which became an
\* MB again that equals the first.
C16_Witness ==
  /\ Len(heap) = 3
  /\ heap[1] = woMBObj(nada)
  /\ heap[2] = woXORObj(nada, FortyTwo)
  /\ last.op = "xor_to_mb"
  /\ last.self = Ref(2)
  /\ last.ret = Ref(3)
  /\ woMB_eq(heap, Ref(3), Ref(1))

\* C19: no call of a method of MayBe or Xor changes the value or the side
\* of an object that exists, receiver and arguments included; map on a
\* non-empty MayBe and on a left Xor returns an object that did not exist.
C19_Immutable ==
  [][/\ Len(heap') >= Len(heap)
     /\ SubSeq(heap', 1, Len(heap)) = heap
     /\ (/\ last'.op = "map"
         /\ MayBe_bool(heap, last'.self)
         /\ last'.exc = "") =>
          /\ IsMayBe(heap', last'.ret)
          /\ last'.ret \notin Refs(heap)
     /\ (/\ last'.op = "Xor.map"
         /\ SideOf(heap, last'.self) = LEFT
         /\ last'.exc = "") =>
          /\ IsXor(heap', last'.ret)
          /\ last'.ret \notin Refs(heap)]_vars

\* C19 happens: map over a left Xor holding 42 returned another Xor, which
\* holds None, and the receiver still holds 42.
C19_Witness ==
  /\ last.op = "Xor.map"
  /\ last.f = "const_none"
  /\ last.exc = ""
  /\ last.ret # last.self
  /\ SideOf(heap, last.self) = LEFT
  /\ ValueOf(heap, last.self) = FortyTwo
  /\ ValueOf(heap, last.ret) = None

\* map_except or bind_except was called on a MayBe.
OnMayBeExcept == last'.op \in {"map_except", "bind_except"}

\* The call returned an empty MayBe.
ReturnedEmpty ==
  /\ last'.exc = ""
  /\ IsMayBe(heap', last'.ret)
  /\ ~MayBe_bool(heap', last'.ret)

NameOf(h, s) == h[s.ref].value

C18_AsStated ==
  /\ Cardinality(Sentinels(heap)) <= 1
  /\ \A t, u \in Threads :
       (At(t, "done") /\ At(u, "done")) => threads[t].ret = threads[u].ret

\* C18 happens: two threads have both found _instance to be None and neither
\* has stored an object yet.
C18_Witness ==
  /\ instances[""] = None
  /\ \E t, u \in Threads : t # u /\ At(t, "new") /\ At(u, "new")

(***************************************************************************)
(* Properties of the folds                                                 *)
(***************************************************************************)

\* The items a fold passes to f as its second argument.
Folded ==
  IF fold.op = "reduceL" /\ fold.xs # <<>> THEN Tail(fold.xs) ELSE fold.xs

\* The positions of Folded at which f raises.
Failing == {i \in 1..Len(Folded) : Folded[i] = 0 /\ RaisesAtZero(fold.f) # ""}

\* C20: reduceL of an empty iterable raises the empty-fold error and foldL
\* of an empty iterable returns initial, both without a call of f; reduceL
\* of a non-empty xs ends as foldL of its tail from its head does; and an
\* exception f raises leaves the fold as it is, after the call that raised.
C20_FoldBoundaries ==
  /\ (fold.op = "reduceL" /\ fold.xs = <<>>) =>
       /\ fold.exc = EmptyFold
       /\ fold.calls = 0
  /\ (fold.op = "foldL" /\ fold.xs = <<>>) =>
       /\ fold.exc = ""
       /\ fold.ret = fold.initial
       /\ fold.calls = 0
  /\ (fold.op = "reduceL" /\ fold.xs # <<>>) =>
       LET r == foldL(Tail(fold.xs), fold.f, Head(fold.xs)) IN
       /\ fold.ret = r.ret
       /\ fold.exc = r.exc
       /\ fold.calls = r.calls
  /\ (fold.op # "" /\ Failing # {}) =>
       /\ fold.exc = RaisesAtZero(fold.f)
       /\ \A i \in Failing : fold.calls <= i
       /\ fold.calls \in Failing

\* C20 happens: reduceL((1, 2, 2), funcL) returned -3 after two calls.
C20_Witness ==
  /\ fold.op = "reduceL"
  /\ fold.xs = <<1, 2, 2>>
  /\ fold.f = "funcL"
  /\ fold.exc = ""
  /\ fold.calls = 2
  /\ fold.ret = -3

(***************************************************************************)
(* Properties of the short-circuit folds                                   *)
(***************************************************************************)

\* The left fold of a non-empty sequence by a function that does not raise.
RECURSIVE LeftFold(_, _)
LeftFold(xs, f) ==
  IF Len(xs) = 1 THEN xs[1]
  ELSE FoldCall(f, LeftFold(SubSeq(xs, 1, Len(xs) - 1), f), xs[Len(xs)]).ret

\* The least member of a non-empty set of indices.
Least(S) == CHOOSE i \in S : \A j \in S : i <= j

\* The indices of run.xs satisfying start, and those at or after the first of
\* them satisfying stop.
Starts == {i \in 1..Len(run.xs) : Holds(run.start, run.xs[i])}
StopsL == {j \in Least(Starts)..Len(run.xs) : Holds(run.stop, run.xs[j])}

\* C21 as stated: with s the first element satisfying start and t the first
\* at or after s satisfying stop, if an element of the run is left by the
\* flags then scReduceL returns its left fold together with the elements
\* after the run, t first when include_stop is false.  (The case where s is
\* t and the flags differ is left out.)
C21_AsStated ==
  (run.op = "scReduceL" /\ Starts # {}) =>
    LET s == Least(Starts)
        e == IF StopsL = {} THEN Len(run.xs) ELSE Least(StopsL)
        lo == IF run.include_start THEN s ELSE s + 1
        hi == IF StopsL # {} /\ ~run.include_stop THEN e - 1 ELSE e
        after == IF StopsL # {} /\ ~run.include_stop THEN e ELSE e + 1
    IN  (lo <= hi /\ ~(StopsL # {} /\ s = e /\ run.include_start # run.include_stop)) =>
          /\ run.exc = ""
          /\ run.ret = LeftFold(SubSeq(run.xs, lo, hi), run.f)
          /\ run.rest = SubSeq(run.xs, after, Len(run.xs))

\* C21 fails: scReduceL((1, 2, 2), add2, start=ge1, stop=ge2,
\* include_start=False) has the stop element 2 left to fold and raises the
\* error of reduceL on an empty iterable.
C21_Witness ==
  /\ run.op = "scReduceL"
  /\ run.xs = <<1, 2, 2>>
  /\ run.f = "add2"
  /\ run.start = Pred("ge1")
  /\ run.stop = Pred("ge2")
  /\ ~run.include_start
  /\ run.include_stop
  /\ run.exc = EmptyFold

\* The right fold of a non-empty sequence by a function that does not raise.
RECURSIVE RightFold(_, _)
RightFold(xs, f) ==
  IF Len(xs) = 1 THEN xs[1]
  ELSE FoldCall(f, xs[1], RightFold(Tail(xs), f)).ret

\* The greatest member of a non-empty set of indices.
Greatest(S) == CHOOSE i \in S : \A j \in S : i >= j

\* The index of s, the end of run.xs when no element satisfies start, and the
\* indices at or before it satisfying stop.
StartR == IF Starts = {} THEN Len(run.xs) ELSE Least(Starts)
StopsR == {j \in 1..StartR : Holds(run.stop, run.xs[j])}

\* C22 as stated: with s the first element satisfying start (the end when
\* there is none) and the run reaching back from s to the nearest element
\* satisfying stop (the beginning when there is none), if an element of the
\* run is left by the flags then scReduceR returns its right fold together
\* with the elements after s, s first when include_start is false.  (The
\* case where s is the stop element and the flags differ is left out.)
C22_AsStated ==
  (run.op = "scReduceR" /\ run.xs # <<>>) =>
    LET hi == IF Starts # {} /\ ~run.include_start THEN StartR - 1 ELSE StartR
        lo == IF StopsR = {} THEN 1
              ELSE IF run.include_stop THEN Greatest(StopsR)
              ELSE Greatest(StopsR) + 1
        after == IF Starts # {} /\ ~run.include_start THEN StartR
                 ELSE StartR + 1
    IN  (/\ lo <= hi
         /\ ~(/\ Starts # {}
              /\ StartR \in StopsR
              /\ run.include_start # run.include_stop)) =>
          /\ run.exc = ""
          /\ run.ret = RightFold(SubSeq(run.xs, lo, hi), run.f)
          /\ run.rest = SubSeq(run.xs, after, Len(run.xs))

\* C22 fails: scReduceR((1, 2), add2, stop=ge2) has the stop element 2 left
\* to fold and raises the error of reduceL on an empty iterable.
C22_Witness ==
  /\ run.op = "scReduceR"
  /\ run.xs = <<1, 2>>
  /\ run.f = "add2"
  /\ run.start = Pred("false")
  /\ run.stop = Pred("ge2")
  /\ run.include_start
  /\ run.include_stop
  /\ run.exc = EmptyFold

(***************************************************************************)
(* Properties of merge and exhaust                                         *)
(***************************************************************************)

\* The length of the shortest of the iterables of the call, which has some.
MinLen == Least({Len(run.iterables[i]) : i \in 1..Len(run.iterables)})

\* The first iterable to be found exhausted.
FirstOut == Least({i \in 1..Len(run.iterables) : Len(run.iterables[i]) = MinLen})

\* m complete rounds over the iterables of the call.
Rounds(m) ==
  LET k == Len(run.iterables) IN
  [n \in 1..(k * m) |-> run.iterables[((n - 1) % k) + 1][((n - 1) \div k) + 1]]

\* C23: merge yields the complete rounds, k * min(len) values; the values
\* drawn in the incomplete round, one from each iterable before the exhausted
\* one, are taken from their iterators and yielded only with yield_partials.
C23_Merge ==
  (run.op = "merge") =>
    IF Len(run.iterables) = 0 THEN run.out = <<>>
    ELSE LET k == Len(run.iterables)
             partials == [i \in 1..(FirstOut - 1) |-> run.iterables[i][MinLen + 1]]
         IN  /\ run.out = Rounds(MinLen) \o (IF run.yield_partials THEN partials ELSE <<>>)
             /\ ~run.yield_partials => Len(run.out) = k * MinLen
             /\ \A i \in 1..k :
                  run.iterList[i] =
                    SubSeq(run.iterables[i],
                           IF i < FirstOut THEN MinLen + 2 ELSE MinLen + 1,
                           Len(run.iterables[i]))

\* C23 happens: merge of iterables of 3, 1 and 2 values without
\* yield_partials yielded one round and lost the second value of the first.
C23_Witness ==
  /\ run.op = "merge"
  /\ ~run.yield_partials
  /\ Len(run.iterables) = 3
  /\ Len(run.iterables[1]) = 3
  /\ Len(run.iterables[2]) = 1
  /\ Len(run.iterables[3]) = 2
  /\ run.out = <<Val(1, 1), Val(2, 1), Val(3, 1)>>
  /\ run.iterList[1] = <<Val(1, 3)>>

\* The sum of the lengths of the first k iterables of the call.
RECURSIVE SumLen(_)
SumLen(k) == IF k = 0 THEN 0 ELSE SumLen(k - 1) + Len(run.iterables[k])

\* Round r of exhaust: the r-th value of each iterable that has one.
RECURSIVE RoundOf(_, _)
RoundOf(r, k) ==
  IF k = 0 THEN <<>>
  ELSE RoundOf(r, k - 1) \o
       (IF Len(run.iterables[k]) >= r THEN <<run.iterables[k][r]>> ELSE <<>>)

\* The rounds 1..r of exhaust.
RECURSIVE RoundsTo(_)
RoundsTo(r) ==
  IF r = 0 THEN <<>> ELSE RoundsTo(r - 1) \o RoundOf(r, Len(run.iterables))

\* C24: exhaust yields every value of every iterable once, sum(len) values in
\* all, round by round, each round taking one value from every iterable not
\* yet exhausted, in argument order.
C24_Exhaust ==
  (run.op = "exhaust") =>
    /\ Len(run.out) = SumLen(Len(run.iterables))
    /\ \A i \in 1..Len(run.iterables) : \A j \in 1..Len(run.iterables[i]) :
         Cardinality({n \in 1..Len(run.out) : run.out[n] = run.iterables[i][j]}) = 1
    /\ run.out = RoundsTo(MaxLen)

\* C24 happens: exhaust of iterables of 1, 3 and 2 values, the first running
\* out first and the last next.
C24_Witness ==
  /\ run.op = "exhaust"
  /\ Len(run.iterables) = 3
  /\ Len(run.iterables[1]) = 1
  /\ Len(run.iterables[2]) = 3
  /\ Len(run.iterables[3]) = 2
  /\ run.out = <<Val(1, 1), Val(2, 1), Val(3, 1), Val(2, 2), Val(3, 2), Val(2, 3)>>

(***************************************************************************)
(* Properties of Lazy                                                      *)
(***************************************************************************)

\* C25: a Lazy is falsy before its first eval and truthy after it; a pure
\* Lazy calls its function at most once and its cached result, once there,
\* never changes; a Lazy that is not pure calls its function at every eval.
C25_LazyCaching ==
  /\ [](\A i \in 1..Len(lazies) :
          /\ Lazy_bool(lazies[i]) <=> lazies[i].evals > 0
          /\ lazies[i].pure => lazies[i].calls <= 1
          /\ ~lazies[i].pure => lazies[i].calls = lazies[i].evals)
  /\ [][\A i \in 1..Len(lazies) :
          (lazies[i].pure /\ Lazy_bool(lazies[i])) =>
             lazies'[i].result = lazies[i].result]_vars

\* C25 happens: a pure Lazy of counter was evaluated three times, called
\* counter once and holds its first result.
C25_Witness ==
  \E i \in 1..Len(lazies) :
    /\ lazies[i].pure
    /\ lazies[i].f = "counter"
    /\ lazies[i].evals = 3
    /\ lazies[i].calls = 1
    /\ lazies[i].result = LzXOR(1, LEFT)

\* What the last call of the function of a Lazy did.
LastCall(l) == LazyCall(l.f, l.d, l.calls - 1)

\* C26 as stated: eval returns normally whether or not the function raises;
\* after the function raised the Lazy is truthy, got_exception is MB(True),
\* got_result is MB(False), get_result is empty and get_exception holds the
\* exception; after it returned r, got_result is MB(True) and get_result is
\* MB(r).
C26_AsStated ==
  /\ run.op = "eval" => run.exc = ""
  /\ \A i \in 1..Len(lazies) :
       lazies[i].calls > 0 =>
         IF LastCall(lazies[i]).exc # ""
         THEN /\ Lazy_bool(lazies[i])
              /\ Lazy_got_exception(lazies[i]) = <<TRUE>>
              /\ Lazy_got_result(lazies[i]) = <<FALSE>>
              /\ Lazy_get_result(lazies[i]) = <<>>
              /\ Lazy_get_exception(lazies[i]) # <<>>
         ELSE /\ Lazy_got_result(lazies[i]) = <<TRUE>>
              /\ Lazy_get_result(lazies[i]) = <<LastCall(lazies[i]).ret>>

\* C26 fails: eval of a Lazy whose function raised ValueError stored the
\* exception and then raised UnboundLocalError.
C26_Witness ==
  /\ run.op = "eval"
  /\ run.exc = "UnboundLocalError"
  /\ lazies[run.self].f = "fails"
  /\ lazies[run.self].result = LzXOR(<<"ValueError">>, RIGHT)

(***************************************************************************)
(* Properties of dropWhile, foldL_sc and take_while_split                  *)
(***************************************************************************)

\* The indices of run.xs whose element fails run.pred.
Fails == {i \in 1..Len(run.xs) : ~Holds(run.pred, run.xs[i])}

\* C28 as stated: dropWhile yields the suffix of xs that starts at the first
\* element for which pred is false, and nothing when there is none.
C28_AsStated ==
  (run.op = "dropWhile") =>
    run.out = IF Fails = {} THEN <<>>
              ELSE SubSeq(run.xs, Least(Fails), Len(run.xs))

\* C28 fails: dropWhile((1, 2), ge1), pred holding for both, yields 2.
C28_Witness ==
  /\ run.op = "dropWhile"
  /\ run.xs = <<1, 2>>
  /\ run.pred = Pred("ge1")
  /\ run.out = <<2>>

\* The state pred has after the elements from..i of run.xs, <<>> once it
\* returned an empty MB.
RECURSIVE PredState(_, _)
PredState(from, i) ==
  IF i < from THEN <<0>>
  ELSE LET t == PredState(from, i - 1) IN
       IF t = <<>> THEN <<>> ELSE Predicate(run.pred, run.xs[i], t[1])

\* The first element of run.xs passed to pred: the second without init.
FirstData == IF run.init = <<>> THEN 2 ELSE 1

\* The indices at which the fold is to stop: an element equal to sent, or one
\* for which pred returns an empty MB.
StopsSc ==
  {i \in 1..Len(run.xs) :
     \/ run.sent # <<>> /\ run.xs[i] = run.sent[1]
     \/ i >= FirstData /\ PredState(FirstData, i) = <<>>}

\* The elements before the first stop.
BeforeStop ==
  IF StopsSc = {} THEN run.xs ELSE SubSeq(run.xs, 1, Least(StopsSc) - 1)

\* C29 as stated: with init other than sent, f is never called with sent as
\* its accumulator or as its data, and the result is the left fold of the
\* elements before the first one that equals sent or that pred stops at.
C29_AsStated ==
  (run.op = "foldL_sc" /\ run.init # run.sent) =>
    /\ \A n \in 1..Len(run.accs) :
         /\ <<run.accs[n]>> # run.sent
         /\ <<run.ds[n]>> # run.sent
    /\ run.ret = IF run.init # <<>> THEN <<LeftFold(run.init \o BeforeStop, run.f)>>
                 ELSE IF BeforeStop = <<>> THEN run.sent
                 ELSE <<LeftFold(BeforeStop, run.f)>>

\* C29 fails: foldL_sc((0, 1), add, sent=0) takes the sentinel 0 as its
\* first accumulator and calls add(0, 1).
C29_Witness ==
  /\ run.op = "foldL_sc"
  /\ run.xs = <<0, 1>>
  /\ run.f = "add2"
  /\ run.init = <<>>
  /\ run.sent = <<0>>
  /\ run.pred = "default"
  /\ run.accs = <<0>>
  /\ run.ds = <<1>>
  /\ run.ret = <<1>>

\* The longest prefix of run.xs whose elements all satisfy run.pred, and the
\* rest of run.xs.
PrefixLen == IF Fails = {} THEN Len(run.xs) ELSE Least(Fails) - 1
Remaining == SubSeq(run.xs, PrefixLen + 1, Len(run.xs))

====
